---- MODULE Spec2Model ----
(***************************************************************************)
(* PRAT: the PO-matching and recommendation pipeline.                      *)
(*                                                                         *)
(*   POService            app/services/po_service.py                       *)
(*   POMatcher            app/core/po_matcher.py                           *)
(*   RecommendationEngine app/core/recommendation_engine.py                *)
(*                                                                         *)
(* Money is counted in thousandths of a currency unit (Decimal values),    *)
(* scores in 1/ONE.  An Optional value is the empty sequence (None) or a   *)
(* one-element sequence.  A Python str that the code compares ignoring     *)
(* case, searches or tokenizes is a sequence of one-character strings.     *)
(***************************************************************************)
EXTENDS Integers, Sequences, FiniteSets, TLC

VARIABLES
    settings,                  \* app.config.settings (the two thresholds)
    po_table,                  \* rows of table purchase_orders, in query order
    invoice,                   \* the Invoice being processed
    pc,                        \* position in the sequence of calls
    lookup_log,                \* POService lookups made by find_matching_po
    matching_po,               \* outcome of find_matching_po / the PO validated
    validation_result,         \* Optional ValidationResult
    business_rule_violations,  \* List[BusinessRuleViolation]
    call1,                     \* outcome of generate_recommendation
    call2,                     \* outcome of calling it again on the same input
    kwargs,                    \* keyword arguments given to a model class
    constructed,               \* outcome of constructing the model from them
    po_service                 \* None: POService over po_table; else a substitute

vars == <<settings, po_table, invoice, pc, lookup_log, matching_po,
          validation_result, business_rule_violations, call1, call2,
          kwargs, constructed, po_service>>

None == <<>>
Some(x) == <<x>>

(***************************************************************************)
(* Units and bounds                                                        *)
(***************************************************************************)
ONE == 6 * 100                 \* the score 1.0
MONEY == 10 * 100              \* one currency unit
CENT == MONEY \div 100         \* Decimal("0.01")

MaxValidationViolations == 1   \* length of validation_result.violations drawn
MaxRuleViolations == 2         \* length of business_rule_violations drawn

Max(a, b) == IF a >= b THEN a ELSE b
Min(a, b) == IF a <= b THEN a ELSE b
Abs(a) == IF a >= 0 THEN a ELSE 0 - a

SeqsUpTo(S, n) == UNION {[1..k -> S] : k \in 0..n}

RECURSIVE SelectCount(_, _)
SelectCount(s, sev) ==
    IF s = <<>> THEN 0
    ELSE (IF Head(s).severity = sev THEN 1 ELSE 0) + SelectCount(Tail(s), sev)

(***************************************************************************)
(* Python str operations on character sequences                            *)
(***************************************************************************)
UpperCase ==
    << "A", "B", "C", "D", "E", "F", "G", "H", "I", "J", "K", "L", "M",
       "N", "O", "P", "Q", "R", "S", "T", "U", "V", "W", "X", "Y", "Z" >>

LowerCase ==
    << "a", "b", "c", "d", "e", "f", "g", "h", "i", "j", "k", "l", "m",
       "n", "o", "p", "q", "r", "s", "t", "u", "v", "w", "x", "y", "z" >>

LowerChar(c) ==
    IF \E i \in DOMAIN UpperCase : UpperCase[i] = c
      THEN LowerCase[CHOOSE i \in DOMAIN UpperCase : UpperCase[i] = c]
      ELSE c

\* str.lower()
lower(s) == [i \in DOMAIN s |-> LowerChar(s[i])]

\* set(str.split()): the whitespace-separated words of s
RECURSIVE SplitWords(_, _, _)
SplitWords(s, cur, acc) ==
    IF s = <<>> THEN (IF cur = <<>> THEN acc ELSE acc \cup {cur})
    ELSE IF Head(s) = " "
      THEN SplitWords(Tail(s), <<>>, IF cur = <<>> THEN acc ELSE acc \cup {cur})
    ELSE SplitWords(Tail(s), Append(cur, Head(s)), acc)

split(s) == SplitWords(s, <<>>, {})

\* SQL LIKE: "%" matches any run of characters, "_" any one character
RECURSIVE LikeMatch(_, _)
LikeMatch(p, s) ==
    IF p = <<>> THEN s = <<>>
    ELSE IF Head(p) = "%"
      THEN LikeMatch(Tail(p), s) \/ (s # <<>> /\ LikeMatch(p, Tail(s)))
    ELSE /\ s # <<>>
         /\ (Head(p) = "_" \/ Head(p) = Head(s))
         /\ LikeMatch(Tail(p), Tail(s))

\* column.ilike(pattern)
ilike(s, pattern) == LikeMatch(lower(pattern), lower(s))

(***************************************************************************)
(* app/config.py                                                           *)
(***************************************************************************)
DefaultSettings ==
    [auto_approve_threshold |-> 1000 * MONEY,
     require_manual_review_threshold |-> 5000 * MONEY,
     max_tax_rate |-> 15]  \* 0.15, in hundredths

(***************************************************************************)
(* app/models/recommendation.py                                            *)
(***************************************************************************)
ActionType == {"APPROVE", "REJECT", "HOLD", "MANUAL_REVIEW"}

Severities == {"LOW", "MEDIUM", "HIGH", "CRITICAL"}

\* BusinessRuleViolation: Config.use_enum_values stores violation_type as the
\* enum's value, a plain str.
BusinessRuleViolation(type, sev) == [violation_type |-> type, severity |-> sev]

\* ValidationResult.get_match_percentage, in percent * ONE
get_match_percentage(vr) ==
    IF vr.total_line_items = 0 THEN 0
    ELSE (vr.matched_line_items * 100 * ONE) \div vr.total_line_items

(***************************************************************************)
(* Exact fractions <<numerator, denominator>> for the float scores of the  *)
(* matcher                                                                 *)
(***************************************************************************)
Frac(n, d) == <<n, d>>
FracGt(a, b) == a[1] * b[2] > b[1] * a[2]
FracMax(a, b) == IF FracGt(b, a) THEN b ELSE a
FracAdd(a, b) == <<a[1] * b[2] + b[1] * a[2], a[2] * b[2]>>

(***************************************************************************)
(* app/models/purchase_order.py                                            *)
(***************************************************************************)
\* the first element of s that satisfies P ("for x in s: if P(x): return x")
FirstWhere(s, P(_)) ==
    LET hits == {i \in DOMAIN s : P(s[i])}
    IN  IF hits = {} THEN None
        ELSE Some(s[CHOOSE i \in hits : \A j \in hits : i <= j])

get_line_item_by_description(po, description) ==
    FirstWhere(po.line_items,
               LAMBDA item : lower(item.description) = lower(description))

get_line_item_by_sku(po, sku) ==
    FirstWhere(po.line_items,
               LAMBDA item : /\ item.sku # None
                             /\ item.sku[1] # <<>>
                             /\ lower(item.sku[1]) = lower(sku))

(***************************************************************************)
(* app/models/invoice.py, app/models/purchase_order.py: construction.      *)
(* A model validates its fields in declaration order; a field validator    *)
(* is given, as data, the fields validated so far, and it runs only when   *)
(* the field's own type and constraint were accepted.                      *)
(***************************************************************************)
InData(data, field) == field \in DOMAIN data

\* data after field was accepted (ok) or rejected
Validated(data, field, value, ok) == IF ok THEN data @@ (field :> value) ELSE data

\* the names of the fields that were rejected
Rejected(checks) == {checks[i][1] : i \in {j \in DOMAIN checks : ~checks[j][2]}}

\* the outcome of a construction: the object, or a validation error
Outcome(model, data, errors) ==
    [model |-> model,
     status |-> IF errors = {} THEN "constructed" ELSE "ValidationError",
     errors |-> errors,
     object |-> IF errors = {} THEN Some(data) ELSE None]

RECURSIVE SumTotalPrice(_)
SumTotalPrice(items) ==
    IF items = <<>> THEN 0 ELSE Head(items).total_price + SumTotalPrice(Tail(items))

\* mutant: the tolerance is ten cents
validate_total_price_WideTolerance(v, data) ==
    /\ DOMAIN data # {}
    /\ InData(data, "quantity")
    /\ InData(data, "unit_price")
    /\ Abs(v - data.quantity * data.unit_price) > 10 * CENT

\* The validators: TRUE when the validator raises ValueError.
\* InvoiceLineItem.validate_total_price and POLineItem.validate_total_price
validate_total_price(v, data) ==
    /\ DOMAIN data # {}
    /\ InData(data, "quantity")
    /\ InData(data, "unit_price")
    /\ Abs(v - data.quantity * data.unit_price) > CENT

validate_total_amount(v, data) ==
    /\ DOMAIN data # {}
    /\ InData(data, "subtotal_amount")
    /\ InData(data, "tax_amount")
    /\ Abs(v - (data.subtotal_amount + data.tax_amount)) > CENT

validate_subtotal(v, data) ==
    /\ DOMAIN data # {}
    /\ InData(data, "line_items")
    /\ Abs(v - SumTotalPrice(data.line_items)) > CENT

validate_total_authorized(v, data) ==
    /\ DOMAIN data # {}
    /\ InData(data, "line_items")
    /\ Abs(v - SumTotalPrice(data.line_items)) > CENT

\* description, quantity, unit_price, total_price in this order
NewLineItem(model, kw) ==
    LET d0 == "description" :> kw.description
        quantity_ok == kw.quantity >= 0
        d1 == Validated(d0, "quantity", kw.quantity, quantity_ok)
        unit_price_ok == kw.unit_price >= 0
        d2 == Validated(d1, "unit_price", kw.unit_price, unit_price_ok)
        total_price_ok == kw.total_price >= 0 /\ ~validate_total_price(kw.total_price, d2)
        d3 == Validated(d2, "total_price", kw.total_price, total_price_ok)
    IN  Outcome(model, d3,
                Rejected(<< <<"quantity", quantity_ok>>, <<"unit_price", unit_price_ok>>,
                            <<"total_price", total_price_ok>> >>))

NewInvoiceLineItem(kw) == NewLineItem("InvoiceLineItem", kw)

NewPOLineItem(kw) == NewLineItem("POLineItem", kw)

\* invoice_number, vendor_name, ..., total_amount, tax_amount,
\* subtotal_amount, currency, line_items in this order
NewInvoice(kw) ==
    LET d0 == ("invoice_number" :> kw.invoice_number) @@ ("vendor_name" :> kw.vendor_name)
        total_amount_ok ==
            kw.total_amount >= 0 /\ ~validate_total_amount(kw.total_amount, d0)
        d1 == Validated(d0, "total_amount", kw.total_amount, total_amount_ok)
        tax_amount_ok == kw.tax_amount >= 0
        d2 == Validated(d1, "tax_amount", kw.tax_amount, tax_amount_ok)
        subtotal_amount_ok ==
            kw.subtotal_amount >= 0 /\ ~validate_subtotal(kw.subtotal_amount, d2)
        d3 == Validated(d2, "subtotal_amount", kw.subtotal_amount, subtotal_amount_ok)
        d4 == Validated(d3, "line_items", kw.line_items, TRUE)
    IN  Outcome("Invoice", d4,
                Rejected(<< <<"total_amount", total_amount_ok>>,
                            <<"tax_amount", tax_amount_ok>>,
                            <<"subtotal_amount", subtotal_amount_ok>> >>))

\* po_number, vendor_name, ..., total_authorized, currency, line_items in
\* this order
NewPurchaseOrder(kw) ==
    LET d0 == ("po_number" :> kw.po_number) @@ ("vendor_name" :> kw.vendor_name)
        total_authorized_ok ==
            /\ kw.total_authorized >= 0
            /\ ~validate_total_authorized(kw.total_authorized, d0)
        d1 == Validated(d0, "total_authorized", kw.total_authorized, total_authorized_ok)
        d2 == Validated(d1, "line_items", kw.line_items, TRUE)
    IN  Outcome("PurchaseOrder", d2,
                Rejected(<< <<"total_authorized", total_authorized_ok>> >>))

ConstructInvoiceLineItem ==
    /\ pc = "constructing"
    /\ kwargs # None
    /\ kwargs[1].model = "InvoiceLineItem"
    /\ constructed' = Some(NewInvoiceLineItem(kwargs[1]))
    /\ pc' = "constructed"
    /\ UNCHANGED <<po_service, kwargs, settings, po_table, invoice, lookup_log, matching_po,
                   validation_result, business_rule_violations, call1, call2>>

ConstructPOLineItem ==
    /\ pc = "constructing"
    /\ kwargs # None
    /\ kwargs[1].model = "POLineItem"
    /\ constructed' = Some(NewPOLineItem(kwargs[1]))
    /\ pc' = "constructed"
    /\ UNCHANGED <<po_service, kwargs, settings, po_table, invoice, lookup_log, matching_po,
                   validation_result, business_rule_violations, call1, call2>>

ConstructInvoice ==
    /\ pc = "constructing"
    /\ kwargs # None
    /\ kwargs[1].model = "Invoice"
    /\ constructed' = Some(NewInvoice(kwargs[1]))
    /\ pc' = "constructed"
    /\ UNCHANGED <<po_service, kwargs, settings, po_table, invoice, lookup_log, matching_po,
                   validation_result, business_rule_violations, call1, call2>>

ConstructPurchaseOrder ==
    /\ pc = "constructing"
    /\ kwargs # None
    /\ kwargs[1].model = "PurchaseOrder"
    /\ constructed' = Some(NewPurchaseOrder(kwargs[1]))
    /\ pc' = "constructed"
    /\ UNCHANGED <<po_service, kwargs, settings, po_table, invoice, lookup_log, matching_po,
                   validation_result, business_rule_violations, call1, call2>>

(***************************************************************************)
(* app/services/po_service.py: lookups over table purchase_orders          *)
(***************************************************************************)
\* PurchaseOrder(...) of a row: po_date is a required datetime, so a row whose
\* po_date is NULL raises a validation error inside the lookup's try block.
RowConverts(row) == row.po_date # None

\* variant: the PO is built with a line item read from po_line_items
RowToPO_WithLineItems(row) ==
    [po_number |-> row.po_number,
     vendor_name |-> row.vendor_name,
     total_authorized |->
         IF row.total_amount # None /\ row.total_amount[1] # 0
           THEN row.total_amount[1] ELSE 0,
     line_items |-> <<[description |-> <<"C", "h">>, quantity |-> 1,
                       unit_price |-> 100 * MONEY, sku |-> None]>>]

RowToPO(row) ==
    [po_number |-> row.po_number,
     vendor_name |-> row.vendor_name,
     total_authorized |->
         IF row.total_amount # None /\ row.total_amount[1] # 0
           THEN row.total_amount[1] ELSE 0,
     line_items |-> <<>>]

RowsToPOs(rows) == [i \in DOMAIN rows |-> RowToPO(rows[i])]

AllConvert(rows) == \A i \in DOMAIN rows : RowConverts(rows[i])

get_po_by_number(po_number) ==
    LET hit == FirstWhere(po_table, LAMBDA row : row.po_number = po_number)
    IN  IF hit = None THEN None
        ELSE IF RowConverts(hit[1]) THEN Some(RowToPO(hit[1]))
        ELSE None

VendorFilter(row, vendor_name) == ilike(row.vendor_name, <<"%">> \o vendor_name \o <<"%">>)

get_pos_by_vendor(vendor_name) ==
    LET vendor_pos_db == SelectSeq(po_table, LAMBDA row : VendorFilter(row, vendor_name))
    IN  IF AllConvert(vendor_pos_db) THEN RowsToPOs(vendor_pos_db) ELSE <<>>

get_all_pos == IF AllConvert(po_table) THEN RowsToPOs(po_table) ELSE <<>>

(***************************************************************************)
(* app/core/po_matcher.py                                                  *)
(***************************************************************************)
Jaccard(words1, words2) ==
    IF words1 = {} \/ words2 = {} THEN Frac(0, 1)
    ELSE Frac(Cardinality(words1 \cap words2), Cardinality(words1 \cup words2))

_calculate_vendor_similarity(vendor1, vendor2) ==
    Jaccard(split(lower(vendor1)), split(lower(vendor2)))

_calculate_text_similarity(text1, text2) == Jaccard(split(text1), split(text2))

\* item_score = desc_similarity * 0.6 + qty_match * 0.2 + price_match * 0.2
ItemScore(invoice_item, po_item) ==
    LET desc_similarity == _calculate_text_similarity(
                               lower(invoice_item.description), lower(po_item.description))
        qty_match == IF invoice_item.quantity = po_item.quantity THEN 1 ELSE 0
        price_match ==
            IF Abs(invoice_item.unit_price - po_item.unit_price) * 100
                   <= po_item.unit_price * 5 THEN 1 ELSE 0
    IN  Frac(6 * desc_similarity[1] + 2 * (qty_match + price_match) * desc_similarity[2],
             10 * desc_similarity[2])

RECURSIVE BestItemScore(_, _, _)
BestItemScore(invoice_item, po_items, best) ==
    IF po_items = <<>> THEN best
    ELSE BestItemScore(invoice_item, Tail(po_items),
                       FracMax(best, ItemScore(invoice_item, Head(po_items))))

RECURSIVE TotalMatches(_, _)
TotalMatches(invoice_items, po_items) ==
    IF invoice_items = <<>> THEN Frac(0, 1)
    ELSE FracAdd(BestItemScore(Head(invoice_items), po_items, Frac(0, 1)),
                 TotalMatches(Tail(invoice_items), po_items))

\* variant: the sum of the best item scores, not divided by the item count
_calculate_line_item_match_score_NotAveraged(inv, po) ==
    IF inv.line_items = <<>> \/ po.line_items = <<>> THEN Frac(0, 1)
    ELSE TotalMatches(inv.line_items, po.line_items)

_calculate_line_item_match_score(inv, po) ==
    IF inv.line_items = <<>> \/ po.line_items = <<>> THEN Frac(0, 1)
    ELSE LET total_matches == TotalMatches(inv.line_items, po.line_items)
         IN  Frac(total_matches[1], total_matches[2] * Len(inv.line_items))

\* the loop "for po in pos: if score > best_score and score > minimum: ..."
\* over the scores of pos, from index i on; gives the index of best_match (0: None)
RECURSIVE BestIndex(_, _, _, _, _)
BestIndex(scores, i, minimum, best_match, best_score) ==
    IF i > Len(scores) THEN best_match
    ELSE IF FracGt(scores[i], best_score) /\ FracGt(scores[i], minimum)
      THEN BestIndex(scores, i + 1, minimum, i, scores[i])
    ELSE BestIndex(scores, i + 1, minimum, best_match, best_score)

BestScoring(pos, Score(_), minimum) ==
    LET best == BestIndex([i \in DOMAIN pos |-> Score(pos[i])], 1, minimum, 0, Frac(0, 1))
    IN  IF best = 0 THEN None ELSE Some(pos[best])

Called(op, raising) == [op |-> op, raised |-> op \in raising]

\* self.po_service: the repository's POService, or the object put in its
\* place (POMatcher(po_service), patch.object(po_service, ..., return_value=...)),
\* which answers every call with its fixed return value
po_service_get_po_by_number(po_number) ==
    IF po_service = None THEN get_po_by_number(po_number)
    ELSE po_service[1].get_po_by_number

po_service_get_pos_by_vendor(vendor_name) ==
    IF po_service = None THEN get_pos_by_vendor(vendor_name)
    ELSE po_service[1].get_pos_by_vendor

po_service_get_all_pos ==
    IF po_service = None THEN get_all_pos ELSE po_service[1].get_all_pos

WithinTolerance(po, inv) == Abs(po.total_authorized - inv.total_amount) <= CENT

\* mutant: the loop keeps the last PO within tolerance instead of returning
\* the first
_find_po_by_vendor_and_amount_LastMatch(inv, raising) ==
    [log |-> <<Called("get_pos_by_vendor", raising)>>,
     po |-> IF "get_pos_by_vendor" \in raising THEN None
            ELSE LET vendor_pos == po_service_get_pos_by_vendor(inv.vendor_name)
                     hits == {i \in DOMAIN vendor_pos : WithinTolerance(vendor_pos[i], inv)}
                 IN  IF hits = {} THEN None
                     ELSE Some(vendor_pos[CHOOSE i \in hits : \A j \in hits : i >= j])]

\* Each strategy gives the PO it found (or None) and the lookups it made;
\* raising is the set of POService lookups that raise to the matcher.
_find_po_by_vendor_and_amount(inv, raising) ==
    [log |-> <<Called("get_pos_by_vendor", raising)>>,
     po |-> IF "get_pos_by_vendor" \in raising THEN None
            ELSE FirstWhere(po_service_get_pos_by_vendor(inv.vendor_name),
                            LAMBDA po : WithinTolerance(po, inv))]

_find_po_by_line_items(inv, raising) ==
    [log |-> <<Called("get_pos_by_vendor", raising)>>,
     po |-> IF "get_pos_by_vendor" \in raising THEN None
            ELSE BestScoring(po_service_get_pos_by_vendor(inv.vendor_name),
                             LAMBDA po : _calculate_line_item_match_score(inv, po),
                             Frac(1, 2))]

\* variant: a similarity of exactly 0.8 is accepted
_find_po_by_fuzzy_vendor_AtLeast(inv, raising) ==
    [log |-> <<Called("get_all_pos", raising)>>,
     po |-> IF "get_all_pos" \in raising THEN None
            ELSE BestScoring(po_service_get_all_pos,
                             LAMBDA po : _calculate_vendor_similarity(
                                             inv.vendor_name, po.vendor_name),
                             Frac(3, 4))]

_find_po_by_fuzzy_vendor(inv, raising) ==
    [log |-> <<Called("get_all_pos", raising)>>,
     po |-> IF "get_all_pos" \in raising THEN None
            ELSE BestScoring(po_service_get_all_pos,
                             LAMBDA po : _calculate_vendor_similarity(
                                             inv.vendor_name, po.vendor_name),
                             Frac(4, 5))]

\* if invoice.po_reference:
Referenced(inv) == inv.po_reference # None /\ inv.po_reference[1] # ""

\* The cascade after strategy 1 gave s1.  strategy: the strategy whose PO is
\* returned, 0 when None is returned; caught: the outer except clause ran;
\* propagated: an exception left find_matching_po.
Cascade(inv, raising, s1, returns_at_once) ==
    LET log1 == IF Referenced(inv) THEN <<Called("get_po_by_number", raising)>> ELSE <<>>
        s2 == _find_po_by_vendor_and_amount(inv, raising)
        s3 == _find_po_by_line_items(inv, raising)
        s4 == _find_po_by_fuzzy_vendor(inv, raising)
    IN  IF Referenced(inv) /\ "get_po_by_number" \in raising
          THEN [po |-> None, strategy |-> 0, log |-> log1, caught |-> TRUE, propagated |-> FALSE]
        ELSE IF s1 # None /\ returns_at_once
          THEN [po |-> s1, strategy |-> 1, log |-> log1, caught |-> FALSE, propagated |-> FALSE]
        ELSE IF s2.po # None
          THEN [po |-> s2.po, strategy |-> 2, log |-> log1 \o s2.log, caught |-> FALSE, propagated |-> FALSE]
        ELSE IF s3.po # None
          THEN [po |-> s3.po, strategy |-> 3, log |-> log1 \o s2.log \o s3.log,
                caught |-> FALSE, propagated |-> FALSE]
        ELSE IF s4.po # None
          THEN [po |-> s4.po, strategy |-> 4,
                log |-> log1 \o s2.log \o s3.log \o s4.log, caught |-> FALSE, propagated |-> FALSE]
        ELSE [po |-> s1, strategy |-> IF s1 # None THEN 1 ELSE 0,
              log |-> log1 \o s2.log \o s3.log \o s4.log, caught |-> FALSE, propagated |-> FALSE]

Strategy1(inv, raising) ==
    IF Referenced(inv) /\ "get_po_by_number" \notin raising
      THEN po_service_get_po_by_number(inv.po_reference[1]) ELSE None

\* mutant: strategy 1 neither returns at once nor guards the later
\* strategies, so a later strategy's PO replaces the referenced one
find_matching_po_FallsThrough(inv, raising) ==
    Cascade(inv, raising, Strategy1(inv, raising), FALSE)

\* mutant: fuzzy vendor matching is tried before line item matching
find_matching_po_FuzzyBeforeLineItems(inv, raising) ==
    LET log1 == IF Referenced(inv) THEN <<Called("get_po_by_number", raising)>> ELSE <<>>
        s1 == Strategy1(inv, raising)
        s2 == _find_po_by_vendor_and_amount(inv, raising)
        s3 == _find_po_by_line_items(inv, raising)
        s4 == _find_po_by_fuzzy_vendor(inv, raising)
    IN  IF Referenced(inv) /\ "get_po_by_number" \in raising
          THEN [po |-> None, strategy |-> 0, log |-> log1, caught |-> TRUE, propagated |-> FALSE]
        ELSE IF s1 # None
          THEN [po |-> s1, strategy |-> 1, log |-> log1, caught |-> FALSE, propagated |-> FALSE]
        ELSE IF s2.po # None
          THEN [po |-> s2.po, strategy |-> 2, log |-> log1 \o s2.log, caught |-> FALSE, propagated |-> FALSE]
        ELSE IF s4.po # None
          THEN [po |-> s4.po, strategy |-> 4, log |-> log1 \o s2.log \o s4.log,
                caught |-> FALSE, propagated |-> FALSE]
        ELSE [po |-> s3.po, strategy |-> IF s3.po # None THEN 3 ELSE 0,
              log |-> log1 \o s2.log \o s4.log \o s3.log, caught |-> FALSE, propagated |-> FALSE]

\* mutant: find_matching_po has no outer except clause, so an exception of
\* the by-number lookup leaves the operation
find_matching_po_NoOuterExcept(inv, raising) ==
    IF Referenced(inv) /\ "get_po_by_number" \in raising
      THEN [po |-> None, strategy |-> 0,
            log |-> <<Called("get_po_by_number", raising)>>,
            caught |-> FALSE, propagated |-> TRUE]
      ELSE Cascade(inv, raising, Strategy1(inv, raising), TRUE)

find_matching_po(inv, raising) ==
    Cascade(inv, raising, Strategy1(inv, raising), TRUE)

NotMatched == [po |-> None, strategy |-> 0, log |-> <<>>, caught |-> FALSE, propagated |-> FALSE]

Lookups == {"get_po_by_number", "get_pos_by_vendor", "get_all_pos"}

FindMatchingPO ==
    /\ pc = "extracted"
    /\ \E raising \in SUBSET Lookups :
         LET found == find_matching_po(invoice, raising)
         IN  /\ matching_po' = found
             /\ lookup_log' = found.log
    /\ pc' = "matched"
    /\ UNCHANGED <<po_service, kwargs, constructed, settings, po_table, invoice, validation_result,
                   business_rule_violations, call1, call2>>

\* mutant: the score is not floored at 0.0
_calculate_validation_confidence_NoFloor(matched_items, total_items, violations) ==
    IF total_items = 0 THEN 0
    ELSE ((matched_items * ONE) \div total_items)
         - Min(Len(violations) * (ONE \div 10), ONE \div 2)
         - SelectCount(violations, "CRITICAL") * (ONE \div 5)

_calculate_validation_confidence(matched_items, total_items, violations) ==
    IF total_items = 0 THEN 0
    ELSE LET item_confidence == (matched_items * ONE) \div total_items
             violation_penalty == Min(Len(violations) * (ONE \div 10), ONE \div 2)
             critical_penalty == SelectCount(violations, "CRITICAL") * (ONE \div 5)
         IN  Max(item_confidence - violation_penalty - critical_penalty, 0)

\* mutant: an item is paired by description only, never by SKU
PairedItem_DescriptionOnly(invoice_item, po) ==
    get_line_item_by_description(po, invoice_item.description)

\* the PO line item an invoice line item is paired with
PairedItem(invoice_item, po) ==
    LET by_description == get_line_item_by_description(po, invoice_item.description)
    IN  IF by_description = None /\ invoice_item.sku # None /\ invoice_item.sku[1] # <<>>
          THEN get_line_item_by_sku(po, invoice_item.sku[1])
          ELSE by_description

\* mutant: an invoice item without counterpart in the PO adds no violation
LineItemViolations_UnpairedIgnored(invoice_item, po) ==
    LET po_item == PairedItem(invoice_item, po)
    IN  IF po_item # None
          THEN (IF invoice_item.quantity # po_item[1].quantity
                  THEN <<BusinessRuleViolation("QUANTITY_MISMATCH", "MEDIUM")>>
                  ELSE <<>>)
               \o (IF Abs(invoice_item.unit_price - po_item[1].unit_price) * 100
                         > po_item[1].unit_price * 5
                     THEN <<BusinessRuleViolation("PRICE_MISMATCH", "MEDIUM")>>
                     ELSE <<>>)
          ELSE <<>>

\* the violations one pass of the line-item loop appends
LineItemViolations(invoice_item, po) ==
    LET po_item == PairedItem(invoice_item, po)
    IN  IF po_item # None
          THEN (IF invoice_item.quantity # po_item[1].quantity
                  THEN <<BusinessRuleViolation("QUANTITY_MISMATCH", "MEDIUM")>>
                  ELSE <<>>)
               \o (IF Abs(invoice_item.unit_price - po_item[1].unit_price) * 100
                         > po_item[1].unit_price * 5
                     THEN <<BusinessRuleViolation("PRICE_MISMATCH", "MEDIUM")>>
                     ELSE <<>>)
          ELSE <<BusinessRuleViolation("QUANTITY_MISMATCH", "HIGH")>>

RECURSIVE AllLineItemViolations(_, _)
AllLineItemViolations(invoice_items, po) ==
    IF invoice_items = <<>> THEN <<>>
    ELSE LineItemViolations(Head(invoice_items), po)
         \o AllLineItemViolations(Tail(invoice_items), po)

MatchedLineItems(inv, po) ==
    Cardinality({i \in DOMAIN inv.line_items : PairedItem(inv.line_items[i], po) # None})

\* mutant: an overage within one cent is tolerated
validate_invoice_against_po_OverageTolerance(inv, po) ==
    LET vendor_violations ==
            IF lower(inv.vendor_name) # lower(po.vendor_name)
              THEN <<BusinessRuleViolation("VENDOR_NOT_AUTHORIZED", "HIGH")>>
              ELSE <<>>
        matched_line_items == MatchedLineItems(inv, po)
        amount_difference == inv.total_amount - po.total_authorized
        overage_amount == Max(amount_difference, 0)
        overage_violations ==
            IF overage_amount > CENT
              THEN <<BusinessRuleViolation("OVERAGE_EXCEEDS_LIMIT", "MEDIUM")>>
              ELSE <<>>
        violations == vendor_violations \o AllLineItemViolations(inv.line_items, po)
                      \o overage_violations
    IN  [is_valid |-> Len(violations) = 0,
         confidence_score |-> _calculate_validation_confidence(
                                  matched_line_items, Len(inv.line_items), violations),
         po_found |-> TRUE,
         po_number |-> Some(po.po_number),
         total_line_items |-> Len(inv.line_items),
         matched_line_items |-> matched_line_items,
         amount_difference |-> Some(amount_difference),
         overage_amount |-> Some(overage_amount),
         violations |-> violations,
         critical_violations |-> SelectCount(violations, "CRITICAL"),
         high_violations |-> SelectCount(violations, "HIGH")]

validate_invoice_against_po(inv, po) ==
    LET vendor_violations ==
            IF lower(inv.vendor_name) # lower(po.vendor_name)
              THEN <<BusinessRuleViolation("VENDOR_NOT_AUTHORIZED", "HIGH")>>
              ELSE <<>>
        matched_line_items == MatchedLineItems(inv, po)
        amount_difference == inv.total_amount - po.total_authorized
        overage_amount == Max(amount_difference, 0)
        overage_violations ==
            IF overage_amount > 0
              THEN <<BusinessRuleViolation("OVERAGE_EXCEEDS_LIMIT", "MEDIUM")>>
              ELSE <<>>
        violations == vendor_violations \o AllLineItemViolations(inv.line_items, po)
                      \o overage_violations
    IN  [is_valid |-> Len(violations) = 0,
         confidence_score |-> _calculate_validation_confidence(
                                  matched_line_items, Len(inv.line_items), violations),
         po_found |-> TRUE,
         po_number |-> Some(po.po_number),
         total_line_items |-> Len(inv.line_items),
         matched_line_items |-> matched_line_items,
         amount_difference |-> Some(amount_difference),
         overage_amount |-> Some(overage_amount),
         violations |-> violations,
         critical_violations |-> SelectCount(violations, "CRITICAL"),
         high_violations |-> SelectCount(violations, "HIGH")]

ValidateInvoiceAgainstPO ==
    /\ pc = "matched"
    /\ matching_po.po # None
    /\ validation_result' = Some(validate_invoice_against_po(invoice, matching_po.po[1]))
    /\ pc' = "validated"
    /\ UNCHANGED <<po_service, kwargs, constructed, settings, po_table, invoice, lookup_log, matching_po,
                   business_rule_violations, call1, call2>>

\* process_invoice, "else" branch of "if matching_po": the ValidationResult
\* built when find_matching_po returned None
NoPOValidationResult(inv) ==
    [is_valid |-> FALSE,
     confidence_score |-> 0,
     po_found |-> FALSE,
     po_number |-> None,
     total_line_items |-> Len(inv.line_items),
     matched_line_items |-> 0,
     amount_difference |-> None,
     overage_amount |-> None,
     violations |-> <<BusinessRuleViolation("PO_NOT_FOUND", "HIGH")>>,
     critical_violations |-> 0,
     high_violations |-> 0]

NoMatchingPO ==
    /\ pc = "matched"
    /\ matching_po.po = None
    /\ ~matching_po.propagated
    /\ validation_result' = Some(NoPOValidationResult(invoice))
    /\ pc' = "validated"
    /\ UNCHANGED <<po_service, kwargs, constructed, settings, po_table, invoice, lookup_log, matching_po,
                   business_rule_violations, call1, call2>>

(***************************************************************************)
(* app/core/business_rules.py                                              *)
(***************************************************************************)
\* "keyword in text" on strings
Contains(text, keyword) ==
    \E i \in 0..(Len(text) - Len(keyword)) :
        SubSeq(text, i + 1, i + Len(keyword)) = keyword

RECURSIVE lstrip(_)
lstrip(s) == IF s # <<>> /\ Head(s) = " " THEN lstrip(Tail(s)) ELSE s

RECURSIVE rstrip(_)
rstrip(s) ==
    IF s # <<>> /\ s[Len(s)] = " " THEN rstrip(SubSeq(s, 1, Len(s) - 1)) ELSE s

strip(s) == rstrip(lstrip(s))

suspicious_keywords ==
    << <<"t", "e", "s", "t">>, <<"d", "e", "m", "o">>,
       <<"s", "a", "m", "p", "l", "e">>, <<"i", "n", "v", "a", "l", "i", "d">> >>

\* a violation as check_business_rules builds it: with its rule_id
RuleViolation(type, sev, rule_id) ==
    [violation_type |-> type, severity |-> sev, rule_id |-> rule_id]

\* mutant: the thresholds are inclusive
_check_approval_thresholds_Inclusive(inv) ==
    (IF inv.total_amount >= settings.auto_approve_threshold
       THEN <<RuleViolation("AMOUNT_EXCEEDS_THRESHOLD", "MEDIUM", "AUTO_APPROVE_THRESHOLD")>>
       ELSE <<>>)
    \o (IF inv.total_amount >= settings.require_manual_review_threshold
          THEN <<RuleViolation("AMOUNT_EXCEEDS_THRESHOLD", "HIGH", "MANUAL_REVIEW_THRESHOLD")>>
          ELSE <<>>)

_check_approval_thresholds(inv) ==
    (IF inv.total_amount > settings.auto_approve_threshold
       THEN <<RuleViolation("AMOUNT_EXCEEDS_THRESHOLD", "MEDIUM", "AUTO_APPROVE_THRESHOLD")>>
       ELSE <<>>)
    \o (IF inv.total_amount > settings.require_manual_review_threshold
          THEN <<RuleViolation("AMOUNT_EXCEEDS_THRESHOLD", "HIGH", "MANUAL_REVIEW_THRESHOLD")>>
          ELSE <<>>)

\* the placeholder lookups of the engine
\* variant: the database lookup finds an earlier invoice of the same number
_check_duplicate_in_database_Found(inv) == TRUE

_check_duplicate_in_database(inv) == FALSE

_is_valid_contract(contract_reference) == TRUE

_is_valid_payment_terms(payment_terms) == TRUE

_check_duplicate_invoice(inv) ==
    IF _check_duplicate_in_database(inv)
      THEN <<RuleViolation("DUPLICATE_INVOICE", "CRITICAL", "DUPLICATE_CHECK")>>
      ELSE <<>>

\* tax_amount / subtotal_amount > max_tax_rate, and
\* abs(tax_amount - subtotal_amount * 0.1) > 0.01, both without division
_validate_tax_calculations(inv) ==
    (IF /\ inv.subtotal_amount > 0
        /\ inv.tax_amount * 100 > settings.max_tax_rate * inv.subtotal_amount
       THEN <<RuleViolation("INVALID_TAX_CALCULATION", "HIGH", "TAX_RATE_CHECK")>>
       ELSE <<>>)
    \o (IF Abs(inv.tax_amount * 10 - inv.subtotal_amount) > CENT * 10
          THEN <<RuleViolation("INVALID_TAX_CALCULATION", "MEDIUM", "TAX_CALCULATION_CHECK")>>
          ELSE <<>>)

_validate_vendor_authorization(inv) ==
    (IF \E k \in DOMAIN suspicious_keywords :
            Contains(lower(inv.vendor_name), suspicious_keywords[k])
       THEN <<RuleViolation("VENDOR_NOT_AUTHORIZED", "HIGH", "VENDOR_SUSPICIOUS_CHECK")>>
       ELSE <<>>)
    \o (IF inv.vendor_name = <<>> \/ Len(strip(inv.vendor_name)) < 2
          THEN <<RuleViolation("VENDOR_NOT_AUTHORIZED", "HIGH", "VENDOR_NAME_CHECK")>>
          ELSE <<>>)

_check_contract_terms(inv) ==
    IF /\ inv.contract_reference # None
       /\ inv.contract_reference[1] # ""
       /\ ~_is_valid_contract(inv.contract_reference[1])
      THEN <<RuleViolation("CONTRACT_VIOLATION", "HIGH", "CONTRACT_VALIDATION")>>
      ELSE <<>>

_validate_payment_terms(inv) ==
    IF /\ inv.payment_terms # None
       /\ inv.payment_terms[1] # ""
       /\ ~_is_valid_payment_terms(inv.payment_terms[1])
      THEN <<RuleViolation("CONTRACT_VIOLATION", "MEDIUM", "PAYMENT_TERMS_CHECK")>>
      ELSE <<>>

\* now: datetime.now() at the time of the check, as a day number
_check_suspicious_patterns(inv, now) ==
    (IF inv.total_amount % (100 * MONEY) = 0 /\ inv.total_amount > 1000 * MONEY
       THEN <<RuleViolation("CONTRACT_VIOLATION", "LOW", "ROUND_NUMBER_CHECK")>>
       ELSE <<>>)
    \o (IF inv.total_amount < MONEY
          THEN <<RuleViolation("CONTRACT_VIOLATION", "MEDIUM", "SMALL_AMOUNT_CHECK")>>
          ELSE <<>>)
    \o (IF inv.invoice_date > now
          THEN <<RuleViolation("DELIVERY_DATE_ISSUE", "HIGH", "FUTURE_DATE_CHECK")>>
          ELSE <<>>)

check_business_rules(inv, now) ==
    _check_approval_thresholds(inv)
    \o _check_duplicate_invoice(inv)
    \o _validate_tax_calculations(inv)
    \o _validate_vendor_authorization(inv)
    \o _check_contract_terms(inv)
    \o _validate_payment_terms(inv)
    \o _check_suspicious_patterns(inv, now)

Today == 20

CheckBusinessRules ==
    /\ pc = "validated"
    /\ business_rule_violations' = check_business_rules(invoice, Today)
    /\ pc' = "rules checked"
    /\ UNCHANGED <<po_service, kwargs, constructed, settings, po_table, invoice, lookup_log, matching_po,
                   validation_result, call1, call2>>

(***************************************************************************)
(* app/core/recommendation_engine.py                                       *)
(***************************************************************************)
\* mutant: an amount equal to the auto-approve threshold is not approved
_determine_base_action_StrictThreshold(inv, vr, violations) ==
    IF SelectCount(violations, "CRITICAL") > 0 THEN "REJECT"
    ELSE IF SelectCount(violations, "HIGH") > 0 THEN "MANUAL_REVIEW"
    ELSE IF vr.po_found /\ vr.is_valid
         THEN (IF inv.total_amount < settings.auto_approve_threshold
                 THEN "APPROVE" ELSE "MANUAL_REVIEW")
    ELSE IF ~vr.po_found THEN "HOLD"
    ELSE "MANUAL_REVIEW"

_determine_base_action(inv, vr, violations) ==
    IF SelectCount(violations, "CRITICAL") > 0 THEN "REJECT"
    ELSE IF SelectCount(violations, "HIGH") > 0 THEN "MANUAL_REVIEW"
    ELSE IF vr.po_found /\ vr.is_valid
         THEN (IF inv.total_amount <= settings.auto_approve_threshold
                 THEN "APPROVE" ELSE "MANUAL_REVIEW")
    ELSE IF ~vr.po_found THEN "HOLD"
    ELSE IF SelectCount(violations, "MEDIUM") > 0 THEN "MANUAL_REVIEW"
    ELSE "MANUAL_REVIEW"

\* The templated sentence: which template, and the values it interpolates.
_generate_fallback_reasoning(inv, vr, violations, action) ==
    CASE action = "APPROVE" ->
           <<"is approved", inv.vendor_name, inv.total_amount,
             get_match_percentage(vr)>>
      [] action = "REJECT" ->
           <<"is rejected", SelectCount(violations, "CRITICAL")>>
      [] action = "MANUAL_REVIEW" ->
           <<"requires manual review", vr.po_found, Len(violations),
             inv.total_amount>>
      [] OTHER ->
           <<"is placed on hold", inv.vendor_name>>

\* llm is the outcome of self.llm.invoke: "raises", or the text returned.
_generate_ai_reasoning(inv, vr, violations, action, llm) ==
    IF llm = "raises"
      THEN _generate_fallback_reasoning(inv, vr, violations, action)
      ELSE <<llm>>

\* mutant: the score is not floored at 0.1
_calculate_confidence_score_NoFloor(vr, violations) ==
    vr.confidence_score
      - Min(Len(violations) * (ONE \div 10), (4 * ONE) \div 10)
      - SelectCount(violations, "CRITICAL") * (ONE \div 5)
      - SelectCount(violations, "HIGH") * ((15 * ONE) \div 100)
      - SelectCount(violations, "MEDIUM") * (ONE \div 10)

_calculate_confidence_score(vr, violations) ==
    LET violation_penalty == Min(Len(violations) * (ONE \div 10), (4 * ONE) \div 10)
        critical_penalty == SelectCount(violations, "CRITICAL") * (ONE \div 5)
        high_penalty == SelectCount(violations, "HIGH") * ((15 * ONE) \div 100)
        medium_penalty == SelectCount(violations, "MEDIUM") * (ONE \div 10)
        total_penalty ==
            violation_penalty + critical_penalty + high_penalty + medium_penalty
    IN  Max(vr.confidence_score - total_penalty, ONE \div 10)

_determine_risk_level(violations) ==
    IF SelectCount(violations, "CRITICAL") > 0 THEN "CRITICAL"
    ELSE IF SelectCount(violations, "HIGH") > 0 THEN "HIGH"
    ELSE IF SelectCount(violations, "MEDIUM") > 0 THEN "MEDIUM"
    ELSE "LOW"

_is_auto_approvable(inv, violations) ==
    IF SelectCount(violations, "CRITICAL") + SelectCount(violations, "HIGH") > 0
      THEN FALSE
    ELSE IF inv.total_amount > settings.auto_approve_threshold THEN FALSE
    ELSE TRUE

\* variant: a total equal to the manual-review threshold requires review
_requires_manual_review_Inclusive(inv, violations) ==
    IF SelectCount(violations, "HIGH") + SelectCount(violations, "CRITICAL") > 0
      THEN TRUE
    ELSE IF inv.total_amount >= settings.require_manual_review_threshold THEN TRUE
    ELSE FALSE

_requires_manual_review(inv, violations) ==
    IF SelectCount(violations, "HIGH") + SelectCount(violations, "CRITICAL") > 0
      THEN TRUE
    ELSE IF inv.total_amount > settings.require_manual_review_threshold THEN TRUE
    ELSE FALSE

\* variant: a total equal to the threshold counts as exceeding it
_approval_threshold_exceeded_Inclusive(inv) ==
    inv.total_amount >= settings.auto_approve_threshold

_approval_threshold_exceeded(inv) ==
    inv.total_amount > settings.auto_approve_threshold

_generate_flagged_issues(violations) ==
    SelectSeq(violations, LAMBDA v : v.severity \in {"HIGH", "CRITICAL"})

\* mutant: violation_type holds the enum member, so reading .value succeeds
SuggestedActionsRaises_EnumMember(violations) == FALSE

\* Line 369 reads v.violation_type.value of every violation; violation_type is
\* a plain str (use_enum_values), so the read raises AttributeError as soon as
\* the list has an element.
SuggestedActionsRaises(violations) == violations # <<>>

_generate_suggested_actions(inv, vr, violations) ==
    (IF ~vr.po_found
       THEN <<"Create purchase order for this vendor", "Verify vendor is authorized">>
       ELSE <<>>)
    \o (IF violations # <<>>
          THEN <<"Review and resolve identified violations",
                 "Contact vendor for clarification if needed">>
          ELSE <<>>)
    \o (IF inv.total_amount > settings.require_manual_review_threshold
          THEN <<"Obtain additional approval for high-value invoice">>
          ELSE <<>>)

_generate_next_steps(action) ==
    CASE action = "APPROVE" ->
           <<"Process payment according to payment terms",
             "Update invoice status in system">>
      [] action = "REJECT" ->
           <<"Notify vendor of rejection", "Document rejection reasons",
             "Return invoice to vendor for correction">>
      [] action = "MANUAL_REVIEW" ->
           <<"Assign to appropriate reviewer",
             "Gather additional documentation if needed",
             "Schedule review meeting if required">>
      [] OTHER ->
           <<"Investigate missing purchase order",
             "Contact vendor for PO reference",
             "Create PO if vendor is authorized">>

\* The outcome of one call, given the confidence score it computes: the locals
\* computed before any exception, and either the ProcessingRecommendation
\* returned or the exception re-raised.  llm is the collaborator's outcome.
RecommendationOutcome(inv, vr, brv, llm, confidence_score) ==
    LET all_violations == vr.violations \o brv
        base_action == _determine_base_action(inv, vr, all_violations)
        reasoning == _generate_ai_reasoning(inv, vr, all_violations, base_action, llm)
        risk_level == _determine_risk_level(all_violations)
        computed ==
            [base_action |-> base_action, reasoning |-> reasoning,
             confidence_score |-> confidence_score, risk_level |-> risk_level]
    IN  IF SuggestedActionsRaises(all_violations)
          THEN [status |-> "raised", error |-> "AttributeError", llm |-> llm,
                computed |-> Some(computed), recommendation |-> None]
        ELSE IF confidence_score < 0 \/ confidence_score > ONE
          THEN [status |-> "raised", error |-> "ValidationError", llm |-> llm,
                computed |-> Some(computed), recommendation |-> None]
        ELSE [status |-> "returned", error |-> "", llm |-> llm,
              computed |-> Some(computed),
              recommendation |-> Some(
                [action |-> base_action,
                 confidence_score |-> confidence_score,
                 reasoning |-> reasoning,
                 flagged_issues |-> _generate_flagged_issues(all_violations),
                 risk_level |-> risk_level,
                 auto_approvable |-> _is_auto_approvable(inv, all_violations),
                 requires_manual_review |->
                     _requires_manual_review(inv, all_violations),
                 approval_threshold_exceeded |-> _approval_threshold_exceeded(inv),
                 suggested_actions |->
                     _generate_suggested_actions(inv, vr, all_violations),
                 next_steps |-> _generate_next_steps(base_action)])]

\* mutant: the confidence is cut to the minimum when the narrative falls back
generate_recommendation_LLMDependent(inv, vr, brv, llm) ==
    RecommendationOutcome(inv, vr, brv, llm,
        IF llm = "raises" THEN ONE \div 10
        ELSE _calculate_confidence_score(vr, vr.violations \o brv))

generate_recommendation(inv, vr, brv, llm) ==
    RecommendationOutcome(inv, vr, brv, llm,
        _calculate_confidence_score(vr, vr.violations \o brv))

NotCalled == [status |-> "not called", error |-> "", llm |-> "",
              computed |-> None, recommendation |-> None]

LLMOutcomes == {"raises", "narrative A", "narrative B"}

\* process_invoice step / a direct call of generate_recommendation
GenerateRecommendation ==
    /\ pc = "rules checked"
    /\ \E llm \in LLMOutcomes :
         call1' = generate_recommendation(
                      invoice, validation_result[1], business_rule_violations, llm)
    /\ pc' = "recommended"
    /\ UNCHANGED <<po_service, kwargs, constructed, settings, po_table, invoice, lookup_log, matching_po,
                   validation_result, business_rule_violations, call2>>

\* the same call made a second time with the same arguments
GenerateRecommendationAgain ==
    /\ pc = "recommended"
    /\ \E llm \in LLMOutcomes :
         call2' = generate_recommendation(
                      invoice, validation_result[1], business_rule_violations, llm)
    /\ pc' = "recommended twice"
    /\ UNCHANGED <<po_service, kwargs, constructed, settings, po_table, invoice, lookup_log, matching_po,
                   validation_result, business_rule_violations, call1>>

(***************************************************************************)
(* Inputs                                                                  *)
(***************************************************************************)
Str_Ac == <<"A", "c">>
Str_ac == <<"a", "c">>
Str_AcX == <<"A", "c", " ", "X">>
Str_Awild == <<"A", "_">>
Str_B == <<"B">>
Str_Ch == <<"C", "h">>
Str_ch == <<"c", "h">>
Str_L == <<"L">>
Str_X == <<"X">>
Str_S1 == <<"S", "1">>
Str_s1 == <<"s", "1">>

LineItem(description, quantity, unit_price, sku) ==
    [description |-> description, quantity |-> quantity,
     unit_price |-> unit_price, sku |-> sku]

InvoiceLineItems ==
    {LineItem(Str_Ch, 1, 100 * MONEY, None),
     LineItem(Str_Ch, 2, 105 * MONEY + 1, None),
     LineItem(Str_L, 1, 105 * MONEY, Some(Str_S1)),
     LineItem(Str_L, 1, 100 * MONEY, None)}

POLineItems ==
    {LineItem(Str_ch, 1, 100 * MONEY, None),
     LineItem(Str_Ch, 2, 100 * MONEY, None),
     LineItem(Str_X, 1, 100 * MONEY, Some(Str_s1))}

Invoice(po_reference, vendor_name, total_amount, line_items) ==
    [invoice_number |-> "INV-1", po_reference |-> po_reference,
     vendor_name |-> vendor_name, total_amount |-> total_amount,
     line_items |-> line_items]

PurchaseOrder(po_number, vendor_name, total_authorized, line_items) ==
    [po_number |-> po_number, vendor_name |-> vendor_name,
     total_authorized |-> total_authorized, line_items |-> line_items]

Given(po) == [po |-> Some(po), strategy |-> 0, log |-> <<>>, caught |-> FALSE, propagated |-> FALSE]

Idle ==
    /\ settings = DefaultSettings
    /\ lookup_log = <<>>
    /\ call1 = NotCalled
    /\ call2 = NotCalled
    /\ kwargs = None
    /\ constructed = None
    /\ po_service = None

(***************************************************************************)
(* generate_recommendation called on any invoice amount, ValidationResult  *)
(* and violation list                                                      *)
(***************************************************************************)
Violations ==
    {BusinessRuleViolation("CONTRACT_VIOLATION", "LOW"),
     BusinessRuleViolation("INVALID_TAX_CALCULATION", "MEDIUM"),
     BusinessRuleViolation("VENDOR_NOT_AUTHORIZED", "HIGH"),
     BusinessRuleViolation("DUPLICATE_INVOICE", "CRITICAL")}

Amounts ==
    {DefaultSettings.auto_approve_threshold - 1,
     DefaultSettings.auto_approve_threshold,
     DefaultSettings.auto_approve_threshold + 1,
     DefaultSettings.require_manual_review_threshold + 1}

ConfidenceScores == {0, ONE \div 2, ONE}

InitRec ==
    /\ Idle
    /\ po_table = <<>>
    /\ matching_po = NotMatched
    /\ pc = "rules checked"
    /\ \E amount \in Amounts :
         invoice = Invoice(None, Str_Ac, amount, <<>>)
    /\ \E po_found \in BOOLEAN, is_valid \in BOOLEAN, confidence \in ConfidenceScores,
          violations \in SeqsUpTo(Violations, MaxValidationViolations) :
         validation_result = Some(
             [is_valid |-> is_valid, confidence_score |-> confidence,
              po_found |-> po_found,
              po_number |-> IF po_found THEN Some("PO-1") ELSE None,
              total_line_items |-> 2, matched_line_items |-> 2,
              amount_difference |-> None, overage_amount |-> None,
              violations |-> violations,
              critical_violations |-> 0, high_violations |-> 0])
    /\ business_rule_violations \in SeqsUpTo(Violations, MaxRuleViolations)

NextRec == GenerateRecommendation \/ GenerateRecommendationAgain

SpecRec == InitRec /\ [][NextRec]_vars

(***************************************************************************)
(* validate_invoice_against_po called on any invoice and purchase order    *)
(***************************************************************************)
MaxInvoiceLineItems == 2
MaxPOLineItems == 2

InitValidate ==
    /\ Idle
    /\ po_table = <<>>
    /\ pc = "matched"
    /\ \E total_amount \in {2250 * MONEY, 2500 * MONEY, 2500 * MONEY + 1, 2750 * MONEY},
          line_items \in SeqsUpTo(InvoiceLineItems, MaxInvoiceLineItems) :
         invoice = Invoice(Some("PO-1"), Str_Ac, total_amount, line_items)
    /\ \E vendor_name \in {Str_ac, Str_B},
          total_authorized \in {0, 2500 * MONEY},
          line_items \in SeqsUpTo(POLineItems, MaxPOLineItems) :
         matching_po = Given(PurchaseOrder("PO-1", vendor_name, total_authorized, line_items))
    /\ validation_result = None
    /\ business_rule_violations = <<>>

NextValidate == ValidateInvoiceAgainstPO

SpecValidate == InitValidate /\ [][NextValidate]_vars

(***************************************************************************)
(* find_matching_po called on any invoice over any purchase_orders table   *)
(***************************************************************************)
MaxPOs == 2

PONumber(i) == CASE i = 1 -> "PO-1" [] i = 2 -> "PO-2" [] i = 3 -> "PO-3" [] OTHER -> "PO-4"

Rows ==
    [vendor_name : {Str_ac, Str_AcX, Str_B},
     total_amount : {Some(2500 * MONEY), Some(2500 * MONEY + CENT)},
     po_date : {None, Some("2024-01-10")}]

Row(i, r) == [po_number |-> PONumber(i), vendor_name |-> r.vendor_name,
              total_amount |-> r.total_amount, po_date |-> r.po_date]

InitMatch ==
    /\ Idle
    /\ \E rows \in SeqsUpTo(Rows, MaxPOs) :
         po_table = [i \in DOMAIN rows |-> Row(i, rows[i])]
    /\ \E po_reference \in {None, Some(""), Some("PO-1"), Some("PO-9")},
          vendor_name \in {Str_Ac, Str_Awild, Str_B},
          total_amount \in {2500 * MONEY, 2500 * MONEY - 1} :
         invoice = Invoice(po_reference, vendor_name, total_amount,
                           <<LineItem(Str_Ch, 1, 100 * MONEY, None)>>)
    /\ pc = "extracted"
    /\ matching_po = NotMatched
    /\ validation_result = None
    /\ business_rule_violations = <<>>

NextMatch == FindMatchingPO

SpecMatch == InitMatch /\ [][NextMatch]_vars

(***************************************************************************)
(* check_business_rules called on any invoice                              *)
(***************************************************************************)
Str_TestCo == <<"T", "e", "s", "t", " ", "C", "o">>

Str_Bpad == <<" ", "B", " ">>

RuleAmounts ==
    {MONEY \div 2, MONEY,
     DefaultSettings.auto_approve_threshold,
     DefaultSettings.auto_approve_threshold + CENT,
     1500 * MONEY,
     DefaultSettings.require_manual_review_threshold,
     DefaultSettings.require_manual_review_threshold + CENT,
     6000 * MONEY}

InitRules ==
    /\ Idle
    /\ po_table = <<>>
    /\ pc = "validated"
    /\ matching_po = NotMatched
    /\ validation_result = None
    /\ business_rule_violations = <<>>
    /\ \E total_amount \in RuleAmounts,
          subtotal_amount \in {0, 1000 * MONEY},
          tax_amount \in {0, 100 * MONEY, 100 * MONEY + CENT + 1, 200 * MONEY},
          vendor_name \in {Str_Ac, Str_Bpad, Str_TestCo},
          contract_reference \in {None, Some("C-1")},
          payment_terms \in {None, Some("NET30")},
          invoice_date \in {Today - 1, Today, Today + 1} :
         invoice = [invoice_number |-> "INV-1", po_reference |-> None,
                    vendor_name |-> vendor_name, total_amount |-> total_amount,
                    subtotal_amount |-> subtotal_amount, tax_amount |-> tax_amount,
                    contract_reference |-> contract_reference,
                    payment_terms |-> payment_terms,
                    invoice_date |-> invoice_date,
                    line_items |-> <<>>]

NextRules == CheckBusinessRules

SpecRules == InitRules /\ [][NextRules]_vars

(***************************************************************************)
(* the model classes constructed from any keyword arguments                *)
(***************************************************************************)
LineItemKwargs(model) ==
    [model : {model}, description : {"Item 1"},
     quantity : {-1, 0, 5},
     unit_price : {-10 * MONEY, 10 * MONEY},
     total_price : {-50 * MONEY, 0, 50 * MONEY, 50 * MONEY + CENT,
                    50 * MONEY + CENT + 1, 60 * MONEY}]

\* line items as they exist once constructed
BuiltLineItems ==
    {[description |-> "Item 1", quantity |-> 1, unit_price |-> 100 * MONEY,
      total_price |-> 100 * MONEY],
     [description |-> "Item 2", quantity |-> 2, unit_price |-> 5 * MONEY,
      total_price |-> 10 * MONEY]}

InvoiceKwargs ==
    [model : {"Invoice"}, invoice_number : {"INV-001"}, vendor_name : {"Test Vendor"},
     total_amount : {-MONEY, 110 * MONEY, 110 * MONEY + CENT, 110 * MONEY + CENT + 1,
                     120 * MONEY},
     tax_amount : {-MONEY, 0, 10 * MONEY},
     subtotal_amount : {100 * MONEY, 110 * MONEY},
     line_items : SeqsUpTo(BuiltLineItems, MaxInvoiceLineItems)]

PurchaseOrderKwargs ==
    [model : {"PurchaseOrder"}, po_number : {"PO-001"}, vendor_name : {"Test Vendor"},
     total_authorized : {-MONEY, 100 * MONEY, 100 * MONEY + CENT,
                         100 * MONEY + CENT + 1, 120 * MONEY},
     line_items : SeqsUpTo(BuiltLineItems, MaxPOLineItems)]

InitModels ==
    /\ settings = DefaultSettings
    /\ po_table = <<>>
    /\ invoice = None
    /\ pc = "constructing"
    /\ lookup_log = <<>>
    /\ matching_po = NotMatched
    /\ validation_result = None
    /\ business_rule_violations = <<>>
    /\ call1 = NotCalled
    /\ call2 = NotCalled
    /\ \E kw \in LineItemKwargs("InvoiceLineItem") \cup LineItemKwargs("POLineItem")
                 \cup InvoiceKwargs \cup PurchaseOrderKwargs :
         kwargs = Some(kw)
    /\ constructed = None
    /\ po_service = None

NextModels ==
    \/ ConstructInvoiceLineItem
    \/ ConstructPOLineItem
    \/ ConstructInvoice
    \/ ConstructPurchaseOrder

SpecModels == InitModels /\ [][NextModels]_vars

(***************************************************************************)
(* find_matching_po called with a substituted PO-lookup collaborator whose *)
(* purchase orders carry line items                                        *)
(***************************************************************************)
Str_ChL == <<"C", "h", " ", "L">>

\* total_authorized and line items of the purchase orders the substitute holds
StubPOs ==
    {[total_authorized |-> 9000 * MONEY, line_items |-> <<>>],
     [total_authorized |-> 9000 * MONEY,
      line_items |-> <<LineItem(Str_Ch, 1, 100 * MONEY, None)>>],
     [total_authorized |-> 9000 * MONEY,
      line_items |-> <<LineItem(Str_ChL, 1, 100 * MONEY, None)>>],
     [total_authorized |-> 9000 * MONEY,
      line_items |-> <<LineItem(Str_X, 1, 100 * MONEY, Some(Str_s1))>>],
     [total_authorized |-> 9000 * MONEY,
      line_items |-> <<LineItem(Str_ch, 2, 100 * MONEY, None),
                       LineItem(Str_L, 1, 100 * MONEY, None)>>],
     [total_authorized |-> 2500 * MONEY,
      line_items |-> <<LineItem(Str_X, 1, 100 * MONEY, None)>>]}

StubVendors == {Str_ac, Str_B}

\* the line items of the invoices matched against them
StubInvoiceLineItems ==
    {<<>>,
     <<LineItem(Str_Ch, 1, 100 * MONEY, None)>>,
     <<LineItem(Str_Ch, 2, 105 * MONEY + 1, None)>>,
     <<LineItem(Str_Ch, 1, 100 * MONEY, None), LineItem(Str_L, 1, 100 * MONEY, None)>>,
     <<LineItem(Str_L, 1, 105 * MONEY, Some(Str_S1)), LineItem(Str_Ch, 1, 100 * MONEY, None)>>}

InitStub ==
    /\ settings = DefaultSettings
    /\ lookup_log = <<>>
    /\ call1 = NotCalled
    /\ call2 = NotCalled
    /\ kwargs = None
    /\ constructed = None
    /\ po_table = <<>>
    /\ \E pos \in SeqsUpTo(StubPOs, MaxPOs), vendor_name \in StubVendors :
         LET held == [i \in DOMAIN pos |->
                         PurchaseOrder(PONumber(i), vendor_name,
                                       pos[i].total_authorized, pos[i].line_items)]
         IN  po_service = Some([get_po_by_number |-> None,
                                get_pos_by_vendor |-> held,
                                get_all_pos |-> held])
    /\ \E po_reference \in {None, Some("PO-9")},
          line_items \in StubInvoiceLineItems :
         invoice = Invoice(po_reference, Str_Ac, 2500 * MONEY, line_items)
    /\ pc = "extracted"
    /\ matching_po = NotMatched
    /\ validation_result = None
    /\ business_rule_violations = <<>>

NextStub == FindMatchingPO

SpecStub == InitStub /\ [][NextStub]_vars

(***************************************************************************)
(* find_matching_po over purchase orders of many-worded vendor names       *)
(***************************************************************************)
Str_abcde == <<"a", " ", "b", " ", "c", " ", "d", " ", "e">>

Str_abcd == <<"a", " ", "b", " ", "c", " ", "d">>

Str_abcdef == <<"a", " ", "b", " ", "c", " ", "d", " ", "e", " ", "f">>

Str_EDCBA == <<"E", " ", "D", " ", "C", " ", "B", " ", "A">>

Str_Blank == <<" ", " ">>

FuzzyRows ==
    [vendor_name : {Str_abcd, Str_abcdef, Str_EDCBA, Str_Blank, Str_B},
     total_amount : {Some(9000 * MONEY)},
     po_date : {None, Some("2024-01-10")}]

InitFuzzy ==
    /\ Idle
    /\ \E rows \in SeqsUpTo(FuzzyRows, MaxPOs) :
         po_table = [i \in DOMAIN rows |-> Row(i, rows[i])]
    /\ \E po_reference \in {None, Some("PO-9")},
          vendor_name \in {Str_abcde, Str_Blank} :
         invoice = Invoice(po_reference, vendor_name, 2500 * MONEY,
                           <<LineItem(Str_Ch, 1, 100 * MONEY, None)>>)
    /\ pc = "extracted"
    /\ matching_po = NotMatched
    /\ validation_result = None
    /\ business_rule_violations = <<>>

NextFuzzy == FindMatchingPO

SpecFuzzy == InitFuzzy /\ [][NextFuzzy]_vars

(***************************************************************************)
(* process_invoice: the uploaded invoice goes through matching, validation, *)
(* the business rules and the recommendation                               *)
(***************************************************************************)
PipelineRows ==
    [vendor_name : {Str_ac, Str_B},
     total_amount : {Some(2500 * MONEY)},
     po_date : {Some("2024-01-10")}]

PipelineAmounts == {500 * MONEY, 2500 * MONEY, 6000 * MONEY}

\* subtotal_amount and tax_amount as extracted
PipelineTaxes ==
    {[subtotal_amount |-> 0, tax_amount |-> 0],
     [subtotal_amount |-> 1000 * MONEY, tax_amount |-> 200 * MONEY]}

PipelineLineItems ==
    {<<>>,
     <<LineItem(Str_Ch, 1, 100 * MONEY, None)>>,
     <<LineItem(Str_Ch, 1, 100 * MONEY, None), LineItem(Str_L, 1, 100 * MONEY, None)>>}

Init ==
    /\ Idle
    /\ \E rows \in SeqsUpTo(PipelineRows, MaxPOs) :
         po_table = [i \in DOMAIN rows |-> Row(i, rows[i])]
    /\ \E po_reference \in {None, Some("PO-1")},
          vendor_name \in {Str_Ac, Str_TestCo},
          total_amount \in PipelineAmounts,
          taxes \in PipelineTaxes,
          invoice_date \in {Today, Today + 1},
          line_items \in PipelineLineItems :
         invoice = [invoice_number |-> "INV-1", po_reference |-> po_reference,
                    vendor_name |-> vendor_name, total_amount |-> total_amount,
                    subtotal_amount |-> taxes.subtotal_amount,
                    tax_amount |-> taxes.tax_amount,
                    contract_reference |-> None,
                    payment_terms |-> Some("NET30"),
                    invoice_date |-> invoice_date,
                    line_items |-> line_items]
    /\ pc = "extracted"
    /\ matching_po = NotMatched
    /\ validation_result = None
    /\ business_rule_violations = <<>>

Next ==
    \/ FindMatchingPO
    \/ ValidateInvoiceAgainstPO
    \/ NoMatchingPO
    \/ CheckBusinessRules
    \/ GenerateRecommendation

Spec == Init /\ [][Next]_vars

(***************************************************************************)
(* generate_recommendation under any configured pair of thresholds         *)
(***************************************************************************)
\* Settings() takes both thresholds from the environment and validates
\* neither against the other
Configurations ==
    {[DefaultSettings EXCEPT !.auto_approve_threshold = a * MONEY,
                             !.require_manual_review_threshold = m * MONEY] :
        a \in {1000, 5000}, m \in {1000, 5000}}

ConfigAmounts ==
    {1000 * MONEY - 1, 1000 * MONEY, 1000 * MONEY + 1, 3000 * MONEY,
     5000 * MONEY, 5000 * MONEY + 1}

InitConfig ==
    /\ settings \in Configurations
    /\ lookup_log = <<>>
    /\ call1 = NotCalled
    /\ call2 = NotCalled
    /\ kwargs = None
    /\ constructed = None
    /\ po_service = None
    /\ po_table = <<>>
    /\ matching_po = NotMatched
    /\ pc = "rules checked"
    /\ \E amount \in ConfigAmounts :
         invoice = Invoice(None, Str_Ac, amount, <<>>)
    /\ \E po_found \in BOOLEAN, is_valid \in BOOLEAN :
         validation_result = Some(
             [is_valid |-> is_valid, confidence_score |-> ONE,
              po_found |-> po_found,
              po_number |-> IF po_found THEN Some("PO-1") ELSE None,
              total_line_items |-> 2, matched_line_items |-> 2,
              amount_difference |-> None, overage_amount |-> None,
              violations |-> <<>>,
              critical_violations |-> 0, high_violations |-> 0])
    /\ business_rule_violations \in SeqsUpTo(Violations, MaxRuleViolations)

NextConfig == GenerateRecommendation

SpecConfig == InitConfig /\ [][NextConfig]_vars

(***************************************************************************)
(* both scoring operations, each on its own inputs                         *)
(***************************************************************************)
InitScores == InitValidate \/ InitRec

NextScores == NextValidate \/ NextRec

SpecScores == InitScores /\ [][NextScores]_vars

(***************************************************************************)
(* Properties                                                              *)
(***************************************************************************)
AllViolations == validation_result[1].violations \o business_rule_violations

Has(violations, sev) == \E i \in DOMAIN violations : violations[i].severity = sev

Called1 == call1.status # "not called"

Returned(call) == call.status = "returned"

ReturnsAction(call, action) ==
    Returned(call) /\ call.recommendation[1].action = action

\* C1: whenever the merged violation list holds a CRITICAL violation, the call
\* returns a recommendation whose action is REJECT, whatever po_found,
\* is_valid and the amount are.
C1_CriticalForcesReject ==
    (Called1 /\ Has(AllViolations, "CRITICAL")) => ReturnsAction(call1, "REJECT")

\* C2: with an empty merged violation list, a PO found, a valid validation and
\* an amount not above the auto-approve threshold, the call returns APPROVE
\* with auto_approvable true.
C2_CleanInvoiceApproved ==
    (/\ Called1
     /\ AllViolations = <<>>
     /\ validation_result[1].po_found
     /\ validation_result[1].is_valid
     /\ invoice.total_amount <= settings.auto_approve_threshold)
    => (/\ ReturnsAction(call1, "APPROVE")
        /\ call1.recommendation[1].auto_approvable)

C2_Witness ==
    /\ Called1
    /\ AllViolations = <<>>
    /\ validation_result[1].po_found
    /\ validation_result[1].is_valid
    /\ invoice.total_amount = settings.auto_approve_threshold
    /\ ReturnsAction(call1, "APPROVE")

\* the six-row decision table of the specification, over the merged list
DecisionTable ==
    IF Has(AllViolations, "CRITICAL") THEN "REJECT"
    ELSE IF Has(AllViolations, "HIGH") THEN "MANUAL_REVIEW"
    ELSE IF validation_result[1].po_found /\ validation_result[1].is_valid
      THEN (IF invoice.total_amount <= settings.auto_approve_threshold
              THEN "APPROVE" ELSE "MANUAL_REVIEW")
    ELSE IF ~validation_result[1].po_found THEN "HOLD"
    ELSE "MANUAL_REVIEW"

\* C3: for every input the call returns exactly one of the four actions, the
\* one the ordered decision table gives over the merged violation list.
C3_ActionIsDecisionTable ==
    Called1 => (/\ Returned(call1)
                /\ call1.recommendation[1].action \in ActionType
                /\ call1.recommendation[1].action = DecisionTable)

\* C4: with no CRITICAL and no HIGH violation and po_found false, the call
\* returns HOLD, whatever MEDIUM and LOW violations are present.
C4_NoPOHolds ==
    (/\ Called1
     /\ ~Has(AllViolations, "CRITICAL")
     /\ ~Has(AllViolations, "HIGH")
     /\ ~validation_result[1].po_found)
    => ReturnsAction(call1, "HOLD")

\* C5: two calls on the same input agree on whether a recommendation is
\* produced and on action, risk level and confidence score, whether the
\* reasoning collaborator succeeds or fails in either; when it fails in both,
\* the reasoning texts agree too.
C5_Deterministic ==
    (pc = "recommended twice") =>
        /\ call1.status = call2.status
        /\ call1.computed[1].base_action = call2.computed[1].base_action
        /\ call1.computed[1].risk_level = call2.computed[1].risk_level
        /\ call1.computed[1].confidence_score = call2.computed[1].confidence_score
        /\ (Returned(call1) =>
              /\ call1.recommendation[1].action = call2.recommendation[1].action
              /\ call1.recommendation[1].risk_level = call2.recommendation[1].risk_level
              /\ call1.recommendation[1].confidence_score
                   = call2.recommendation[1].confidence_score)
        /\ ((call1.llm = "raises" /\ call2.llm = "raises") =>
              call1.computed[1].reasoning = call2.computed[1].reasoning)

C5_Witness ==
    /\ pc = "recommended twice"
    /\ Returned(call1) /\ Returned(call2)
    /\ call1.llm = "raises" /\ call2.llm # "raises"
    /\ call1.recommendation[1].reasoning # call2.recommendation[1].reasoning
    /\ call1.recommendation[1].confidence_score = call2.recommendation[1].confidence_score

\* C6: the confidence score validate_invoice_against_po computes lies in
\* [0.0, 1.0], and the one generate_recommendation computes from a validation
\* confidence in [0.0, 1.0] lies in [0.1, 1.0].
C6_ConfidenceRanges ==
    /\ (pc = "validated" =>
          /\ validation_result[1].confidence_score >= 0
          /\ validation_result[1].confidence_score <= ONE)
    /\ (Called1 =>
          /\ call1.computed[1].confidence_score >= ONE \div 10
          /\ call1.computed[1].confidence_score <= ONE
          /\ (Returned(call1) =>
                call1.recommendation[1].confidence_score
                  = call1.computed[1].confidence_score))

\* the floor of 0.1 acts on a returned recommendation
C6_Witness ==
    /\ Returned(call1)
    /\ validation_result[1].confidence_score = 0
    /\ call1.recommendation[1].confidence_score = ONE \div 10

\* C7: the call always returns a recommendation; when the reasoning
\* collaborator raises, its reasoning is the template of the chosen action.
C7_AlwaysReturnsWithReasoning ==
    Called1 =>
        /\ Returned(call1)
        /\ (call1.llm = "raises" =>
              call1.recommendation[1].reasoning =
                  _generate_fallback_reasoning(invoice, validation_result[1],
                      AllViolations, call1.recommendation[1].action))

\* the rows of purchase_orders a by-number query for the invoice's reference gives
ReferencedRows ==
    {i \in DOMAIN po_table :
        invoice.po_reference # None /\ po_table[i].po_number = invoice.po_reference[1]}

ByNumberReturned ==
    /\ pc = "matched"
    /\ lookup_log # <<>>
    /\ lookup_log[1] = [op |-> "get_po_by_number", raised |-> FALSE]
    /\ \E i \in ReferencedRows : po_table[i].po_date # None

\* C8: when the by-number lookup of the invoice's po_reference returns a PO,
\* find_matching_po returns that PO and makes no other lookup.
C8_ReferenceWins ==
    ByNumberReturned =>
        /\ matching_po.strategy = 1
        /\ matching_po.po # None
        /\ \E i \in ReferencedRows :
             /\ matching_po.po[1].po_number = po_table[i].po_number
             /\ matching_po.po[1].vendor_name = po_table[i].vendor_name
             /\ matching_po.po[1].total_authorized = po_table[i].total_amount[1]
        /\ lookup_log = <<[op |-> "get_po_by_number", raised |-> FALSE]>>

\* the referenced PO is returned although another PO matches vendor and amount
C8_Witness ==
    /\ ByNumberReturned
    /\ matching_po.strategy = 1
    /\ lower(matching_po.po[1].vendor_name) # lower(invoice.vendor_name)
    /\ ~WithinTolerance(matching_po.po[1], invoice)
    /\ \E i \in DOMAIN po_table :
         /\ po_table[i].po_number # matching_po.po[1].po_number
         /\ lower(po_table[i].vendor_name) = lower(invoice.vendor_name)
         /\ WithinTolerance(RowToPO(po_table[i]), invoice)

\* strategy 1 yields nothing: no reference, or the reference is not found
Strategy1Nothing ==
    /\ pc = "matched"
    /\ \/ ~Referenced(invoice)
       \/ /\ lookup_log # <<>>
          /\ lookup_log[1] = [op |-> "get_po_by_number", raised |-> FALSE]
          /\ get_po_by_number(invoice.po_reference[1]) = None

ByVendorCalls == SelectSeq(lookup_log, LAMBDA c : c.op = "get_pos_by_vendor")

\* the POs the by-vendor lookup returned that are within 0.01 of the invoice
VendorAmountHits ==
    {i \in DOMAIN get_pos_by_vendor(invoice.vendor_name) :
        WithinTolerance(get_pos_by_vendor(invoice.vendor_name)[i], invoice)}

\* C9: when strategy 1 yields nothing and the by-vendor lookup returns a PO
\* within 0.01 of the invoice total, find_matching_po returns the first such
\* PO of the lookup's list and does not run strategies 3 and 4.
C9_FirstVendorAmountMatch ==
    (/\ Strategy1Nothing
     /\ ByVendorCalls # <<>>
     /\ ~ByVendorCalls[1].raised
     /\ VendorAmountHits # {})
    => (/\ matching_po.strategy = 2
        /\ matching_po.po = Some(get_pos_by_vendor(invoice.vendor_name)[
               CHOOSE i \in VendorAmountHits : \A j \in VendorAmountHits : i <= j])
        /\ Len(ByVendorCalls) = 1
        /\ \A k \in DOMAIN lookup_log : lookup_log[k].op # "get_all_pos")

\* two POs of the list are within tolerance and the first is returned
C9_Witness ==
    /\ Strategy1Nothing
    /\ matching_po.strategy = 2
    /\ Cardinality(VendorAmountHits) >= 2
    /\ matching_po.po[1].po_number = "PO-1"
    /\ Referenced(invoice)

\* C10: a PO returned by strategy 2 has the invoice's vendor name, compared
\* ignoring case.
C10_Strategy2SameVendor ==
    (pc = "matched" /\ matching_po.strategy = 2)
    => lower(matching_po.po[1].vendor_name) = lower(invoice.vendor_name)

\* the lookups that raised to the matcher during the call
RaisedLookups == {lookup_log[i].op : i \in {j \in DOMAIN lookup_log : lookup_log[j].raised}}

\* strategy 1 makes a lookup only for a referenced invoice, so the i-th lookup
\* of the call belongs to strategy i + StrategyOffset
StrategyOffset == IF Referenced(invoice) THEN 0 ELSE 1

StrategyRan(k) == k = 1 \/ (k - StrategyOffset) \in DOMAIN lookup_log

StrategyLookup(k) ==
    CASE k = 1 -> "get_po_by_number"
      [] k = 4 -> "get_all_pos"
      [] OTHER -> "get_pos_by_vendor"

\* what strategy k gave in the call, for a strategy that ran
StrategyYield(k) ==
    CASE k = 1 -> Strategy1(invoice, RaisedLookups)
      [] k = 2 -> _find_po_by_vendor_and_amount(invoice, RaisedLookups).po
      [] k = 3 -> _find_po_by_line_items(invoice, RaisedLookups).po
      [] OTHER -> _find_po_by_fuzzy_vendor(invoice, RaisedLookups).po

\* C11: the strategies run in the order reference, vendor+amount, line items,
\* fuzzy vendor; a strategy runs only if every earlier one ran and gave none,
\* and a returned PO is what the lowest-numbered yielding strategy gave.
C11_FixedOrderFirstSuccess ==
    pc = "matched" =>
        /\ \A i \in DOMAIN lookup_log :
             lookup_log[i].op = StrategyLookup(i + StrategyOffset)
        /\ \A k \in 2..4 :
             StrategyRan(k) =>
                 \A j \in 1..(k - 1) : StrategyRan(j) /\ StrategyYield(j) = None
        /\ matching_po.po # None =>
             \E k \in 1..4 :
                 /\ matching_po.strategy = k
                 /\ StrategyRan(k)
                 /\ StrategyYield(k) = matching_po.po
                 /\ \A j \in 1..(k - 1) : StrategyYield(j) = None
                 /\ \A j \in (k + 1)..4 : ~StrategyRan(j)

\* strategies 1, 2 and 3 ran and gave none, and strategy 4's PO is returned
C11_Witness ==
    /\ pc = "matched"
    /\ Referenced(invoice)
    /\ matching_po.strategy = 4
    /\ matching_po.po # None
    /\ Len(lookup_log) = 4

\* the POs the repository can hand out
TablePOs == {RowToPO(po_table[i]) : i \in DOMAIN po_table}

\* C12: whatever lookups raise, find_matching_po returns a PO or none and no
\* exception leaves it.
C12_NeverPropagates ==
    pc = "matched" =>
        /\ ~matching_po.propagated
        /\ \/ matching_po.po = None
           \/ /\ Len(matching_po.po) = 1
              /\ matching_po.po[1] \in TablePOs
        /\ (matching_po.caught => matching_po.po = None)

\* the by-number lookup raised, the outer except clause ran and none is returned
C12_Witness ==
    /\ pc = "matched"
    /\ Referenced(invoice)
    /\ lookup_log[1].raised
    /\ matching_po.caught
    /\ ~matching_po.propagated
    /\ matching_po.po = None

\* C13: a lookup that raises inside a strategy counts as that strategy having
\* failed and the next strategy is tried; none is returned only when every
\* strategy ran and gave none.
C13_RaiseMeansNextStrategy ==
    pc = "matched" =>
        /\ \A i \in DOMAIN lookup_log :
             (lookup_log[i].raised /\ i + StrategyOffset < 4)
                 => (i + 1) \in DOMAIN lookup_log
        /\ matching_po.po = None =>
             \A k \in 1..4 : StrategyRan(k) /\ StrategyYield(k) = None

\* the violations of one type in a list
OfType(violations, type) == SelectSeq(violations, LAMBDA v : v.violation_type = type)

\* C14: validate_invoice_against_po reports overage_amount =
\* max(invoice total - PO total_authorized, 0), and lists exactly one MEDIUM
\* OVERAGE_EXCEEDS_LIMIT violation when that is positive and none otherwise.
C14_OverageReported ==
    (pc = "validated" /\ matching_po.po # None) =>
        LET vr == validation_result[1]
            difference == invoice.total_amount - matching_po.po[1].total_authorized
            overage == IF difference > 0 THEN difference ELSE 0
            reported == OfType(vr.violations, "OVERAGE_EXCEEDS_LIMIT")
        IN  /\ vr.overage_amount = Some(overage)
            /\ Len(reported) = (IF overage > 0 THEN 1 ELSE 0)
            /\ \A i \in DOMAIN reported : reported[i].severity = "MEDIUM"

\* invoice total 2750.00 against total_authorized 2500.00
C14_Witness ==
    /\ pc = "validated"
    /\ invoice.total_amount = 2750 * MONEY
    /\ matching_po.po[1].total_authorized = 2500 * MONEY
    /\ validation_result[1].overage_amount = Some(250 * MONEY)
    /\ Len(OfType(validation_result[1].violations, "OVERAGE_EXCEEDS_LIMIT")) = 1

\* the violations of one type and severity in a list
OfTypeAndSeverity(violations, type, sev) ==
    SelectSeq(violations, LAMBDA v : v.violation_type = type /\ v.severity = sev)

RulesChecked == pc = "rules checked" /\ call1 = NotCalled

\* C15: check_business_rules returns one MEDIUM AMOUNT_EXCEEDS_THRESHOLD
\* violation exactly when the total is above auto_approve_threshold, and one
\* HIGH one in addition exactly when it is above
\* require_manual_review_threshold.
C15_ThresholdViolations ==
    RulesChecked =>
        /\ Len(OfTypeAndSeverity(business_rule_violations,
                                 "AMOUNT_EXCEEDS_THRESHOLD", "MEDIUM"))
             = (IF invoice.total_amount > settings.auto_approve_threshold THEN 1 ELSE 0)
        /\ Len(OfTypeAndSeverity(business_rule_violations,
                                 "AMOUNT_EXCEEDS_THRESHOLD", "HIGH"))
             = (IF invoice.total_amount > settings.require_manual_review_threshold
                  THEN 1 ELSE 0)
        /\ Len(OfType(business_rule_violations, "AMOUNT_EXCEEDS_THRESHOLD")) <= 2

\* both thresholds are exceeded and both violations are returned
C15_Witness ==
    /\ RulesChecked
    /\ invoice.total_amount > settings.require_manual_review_threshold
    /\ Len(OfType(business_rule_violations, "AMOUNT_EXCEEDS_THRESHOLD")) = 2
    /\ business_rule_violations[1].severity = "MEDIUM"
    /\ business_rule_violations[2].severity = "HIGH"

Constructed(models) ==
    /\ pc = "constructed"
    /\ constructed # None
    /\ constructed[1].model \in models

\* C16: a line item (of an invoice or of a PO) is constructed only if
\* abs(total_price - quantity * unit_price) <= 0.01; otherwise construction
\* fails with a validation error and there is no object.
C16_LineItemTotalValidated ==
    Constructed({"InvoiceLineItem", "POLineItem"}) =>
        LET kw == kwargs[1]
            consistent == Abs(kw.total_price - kw.quantity * kw.unit_price) <= CENT
        IN  /\ constructed[1].status = "constructed" => consistent
            /\ ~consistent =>
                 /\ constructed[1].status = "ValidationError"
                 /\ constructed[1].object = None

\* 5 * 10.00 against a total_price of 60.00 is rejected by the validator
C16_Witness ==
    /\ Constructed({"POLineItem"})
    /\ kwargs[1].quantity = 5
    /\ kwargs[1].unit_price = 10 * MONEY
    /\ kwargs[1].total_price = 60 * MONEY
    /\ constructed[1].status = "ValidationError"
    /\ constructed[1].errors = {"total_price"}

\* C17: constructing an Invoice fails when total_amount differs from
\* subtotal_amount + tax_amount, or subtotal_amount from the sum of the line
\* items' total_price, by more than 0.01.
C17_InvoiceTotalsValidated ==
    Constructed({"Invoice"}) =>
        LET kw == kwargs[1]
        IN  (\/ Abs(kw.total_amount - (kw.subtotal_amount + kw.tax_amount)) > CENT
             \/ Abs(kw.subtotal_amount - SumTotalPrice(kw.line_items)) > CENT)
            => constructed[1].status = "ValidationError"

\* C18: constructing a PurchaseOrder fails when total_authorized differs from
\* the sum of the line items' total_price by more than 0.01.
C18_POTotalValidated ==
    Constructed({"PurchaseOrder"}) =>
        (Abs(kwargs[1].total_authorized - SumTotalPrice(kwargs[1].line_items)) > CENT
         => constructed[1].status = "ValidationError")

\* C19: for every input the recommendation's auto_approvable is true exactly
\* when the merged list has no CRITICAL and no HIGH violation and the total is
\* not above auto_approve_threshold.
C19_AutoApprovableIff ==
    Called1 =>
        /\ Returned(call1)
        /\ call1.recommendation[1].auto_approvable
             <=> (/\ ~Has(AllViolations, "CRITICAL")
                  /\ ~Has(AllViolations, "HIGH")
                  /\ invoice.total_amount <= settings.auto_approve_threshold)

Validated_ == pc = "validated" /\ matching_po.po # None /\ validation_result # None

\* the index of the PO line item that invoice line item i is to be paired
\* with: the first of equal description, else the first of equal SKU when the
\* invoice item has one; 0 when there is none
PairIndex(i) ==
    LET item == invoice.line_items[i]
        po_items == matching_po.po[1].line_items
        same_description ==
            {j \in DOMAIN po_items : lower(po_items[j].description) = lower(item.description)}
        same_sku ==
            IF item.sku = None \/ item.sku = Some(<<>>) THEN {}
            ELSE {j \in DOMAIN po_items :
                     /\ po_items[j].sku # None
                     /\ po_items[j].sku # Some(<<>>)
                     /\ lower(po_items[j].sku[1]) = lower(item.sku[1])}
        First(S) == CHOOSE j \in S : \A k \in S : j <= k
    IN  IF same_description # {} THEN First(same_description)
        ELSE IF same_sku # {} THEN First(same_sku)
        ELSE 0

PairedIndexes == {i \in DOMAIN invoice.line_items : PairIndex(i) # 0}

QuantityDiffers(i) ==
    invoice.line_items[i].quantity
        # matching_po.po[1].line_items[PairIndex(i)].quantity

PriceOutOfTolerance(i) ==
    LET po_price == matching_po.po[1].line_items[PairIndex(i)].unit_price
    IN  Abs(invoice.line_items[i].unit_price - po_price) * 100 > 5 * po_price

\* C21: each invoice line item is paired by description, else by SKU; a paired
\* item counts as matched and gives a MEDIUM QUANTITY_MISMATCH iff quantities
\* differ and a MEDIUM PRICE_MISMATCH iff the price is more than 5% off; an
\* unpaired item gives one HIGH QUANTITY_MISMATCH and is not counted.
C21_LineItemPairing ==
    Validated_ =>
        LET vr == validation_result[1]
            Count(type, sev) == Len(OfTypeAndSeverity(vr.violations, type, sev))
        IN  /\ vr.matched_line_items = Cardinality(PairedIndexes)
            /\ vr.total_line_items = Len(invoice.line_items)
            /\ Count("QUANTITY_MISMATCH", "MEDIUM")
                 = Cardinality({i \in PairedIndexes : QuantityDiffers(i)})
            /\ Count("PRICE_MISMATCH", "MEDIUM")
                 = Cardinality({i \in PairedIndexes : PriceOutOfTolerance(i)})
            /\ Count("QUANTITY_MISMATCH", "HIGH")
                 = Len(invoice.line_items) - Cardinality(PairedIndexes)
            /\ Len(OfType(vr.violations, "QUANTITY_MISMATCH"))
                 = Count("QUANTITY_MISMATCH", "MEDIUM") + Count("QUANTITY_MISMATCH", "HIGH")
            /\ Len(OfType(vr.violations, "PRICE_MISMATCH")) = Count("PRICE_MISMATCH", "MEDIUM")

\* one item is paired by its SKU, the other has no counterpart
C21_Witness ==
    /\ Validated_
    /\ Len(invoice.line_items) = 2
    /\ invoice.line_items[1].sku # None
    /\ PairIndex(1) # 0
    /\ lower(matching_po.po[1].line_items[PairIndex(1)].description)
         # lower(invoice.line_items[1].description)
    /\ PairIndex(2) = 0
    /\ validation_result[1].matched_line_items = 1

\* C22: a ValidationResult of validate_invoice_against_po has po_found true
\* and is_valid = (no violation); so is_valid holds exactly when the vendor
\* names are equal ignoring case, every invoice line item is paired with equal
\* quantity and a price within 5%, and the total is within the authorization.
C22_ValidIffNoViolation ==
    Validated_ =>
        LET vr == validation_result[1]
        IN  /\ vr.po_found
            /\ vr.is_valid <=> (vr.violations = <<>>)
            /\ vr.is_valid <=>
                 (/\ lower(invoice.vendor_name) = lower(matching_po.po[1].vendor_name)
                  /\ \A i \in DOMAIN invoice.line_items :
                       /\ PairIndex(i) # 0
                       /\ ~QuantityDiffers(i)
                       /\ ~PriceOutOfTolerance(i)
                  /\ invoice.total_amount <= matching_po.po[1].total_authorized)

\* a valid result for an invoice with line items whose vendor name differs
\* from the PO's in case only
C22_Witness ==
    /\ Validated_
    /\ validation_result[1].is_valid
    /\ invoice.line_items # <<>>
    /\ invoice.vendor_name # matching_po.po[1].vendor_name

\* the by-vendor lookup's answer, as strategy 3 received it
VendorPOs == po_service_get_pos_by_vendor(invoice.vendor_name)

Words(text) == split(lower(text))

\* 60 times 0.6 * description Jaccard + 0.2 * (quantity equal)
\* + 0.2 * (unit price within 5%)
PairScore60(invoice_item, po_item) ==
    LET w1 == Words(invoice_item.description)
        w2 == Words(po_item.description)
    IN  (IF w1 = {} \/ w2 = {} THEN 0
         ELSE (36 * Cardinality(w1 \cap w2)) \div Cardinality(w1 \cup w2))
        + (IF invoice_item.quantity = po_item.quantity THEN 12 ELSE 0)
        + (IF Abs(invoice_item.unit_price - po_item.unit_price) * 100
                <= 5 * po_item.unit_price THEN 12 ELSE 0)

BestPairScore60(invoice_item, po) ==
    LET values == {PairScore60(invoice_item, po.line_items[j]) : j \in DOMAIN po.line_items}
    IN  CHOOSE v \in values : \A w \in values : v >= w

\* 60 times the sum over the invoice's line items (from index i on)
RECURSIVE SumScore60(_, _)
SumScore60(i, po) ==
    IF i > Len(invoice.line_items) THEN 0
    ELSE BestPairScore60(invoice.line_items[i], po) + SumScore60(i + 1, po)

\* 60 * number of invoice items * the line-item match score of a PO
LineItemScore60(po) ==
    IF invoice.line_items = <<>> \/ po.line_items = <<>> THEN 0 ELSE SumScore60(1, po)

\* the positions of the POs that score above 0.5 and no lower than any other
TopScoring ==
    {k \in DOMAIN VendorPOs :
        /\ LineItemScore60(VendorPOs[k]) * 2 > 60 * Len(invoice.line_items)
        /\ \A j \in DOMAIN VendorPOs :
             LineItemScore60(VendorPOs[j]) <= LineItemScore60(VendorPOs[k])}

\* strategies 1 and 2 gave none and strategy 3's by-vendor lookup answered
Strategy3Decides ==
    /\ pc = "matched"
    /\ StrategyRan(3)
    /\ ~lookup_log[3 - StrategyOffset].raised

\* C23: when strategies 1 and 2 yield none, strategy 3 returns the first of
\* the by-vendor POs with the highest line-item match score if that score is
\* above 0.5, and none otherwise; the score is the average over the invoice
\* items of the best pair score, 0 when either side has no line items.
C23_BestLineItemScore ==
    Strategy3Decides =>
        IF TopScoring = {}
          THEN matching_po.strategy # 3 /\ StrategyRan(4)
          ELSE /\ matching_po.strategy = 3
               /\ matching_po.po =
                    Some(VendorPOs[CHOOSE k \in TopScoring : \A j \in TopScoring : k <= j])
               /\ ~StrategyRan(4)

\* two POs score alike above 0.5 and the first is returned by strategy 3
C23_Witness ==
    /\ Strategy3Decides
    /\ Cardinality(TopScoring) = 2
    /\ matching_po.strategy = 3
    /\ matching_po.po[1].po_number = "PO-1"
    /\ LineItemScore60(matching_po.po[1]) < 60 * Len(invoice.line_items)

\* the all-POs lookup's answer, as strategy 4 received it
AllPOs == po_service_get_all_pos

Common(po) == Cardinality(Words(invoice.vendor_name) \cap Words(po.vendor_name))

Either(po) == Cardinality(Words(invoice.vendor_name) \cup Words(po.vendor_name))

\* the positions of the POs whose vendor similarity is above 0.8 and no lower
\* than any other's
TopSimilar ==
    {k \in DOMAIN AllPOs :
        /\ Words(invoice.vendor_name) # {}
        /\ Words(AllPOs[k].vendor_name) # {}
        /\ 5 * Common(AllPOs[k]) > 4 * Either(AllPOs[k])
        /\ \A j \in DOMAIN AllPOs :
             Words(AllPOs[j].vendor_name) # {} =>
                Common(AllPOs[j]) * Either(AllPOs[k]) <= Common(AllPOs[k]) * Either(AllPOs[j])}

\* strategies 1, 2 and 3 gave none and strategy 4's lookup answered
Strategy4Decides ==
    /\ pc = "matched"
    /\ StrategyRan(4)
    /\ ~lookup_log[4 - StrategyOffset].raised

NoPOProcessed == pc = "recommended" /\ matching_po.po = None

\* C25: when find_matching_po returns none, process_invoice builds a
\* ValidationResult with po_found false carrying one HIGH PO_NOT_FOUND
\* violation, and the recommendation it gets is MANUAL_REVIEW (REJECT with a
\* CRITICAL violation), never HOLD.
C25_NoPOManualReview ==
    NoPOProcessed =>
        /\ ~validation_result[1].po_found
        /\ validation_result[1].violations = <<BusinessRuleViolation("PO_NOT_FOUND", "HIGH")>>
        /\ Returned(call1)
        /\ call1.recommendation[1].action =
              (IF Has(AllViolations, "CRITICAL") THEN "REJECT" ELSE "MANUAL_REVIEW")

\* what holds of it: the no-PO result is built as stated, and no HOLD is
\* returned, because no recommendation is returned at all
C25_NoPONeverHold ==
    NoPOProcessed =>
        /\ ~validation_result[1].po_found
        /\ validation_result[1].violations = <<BusinessRuleViolation("PO_NOT_FOUND", "HIGH")>>
        /\ call1.computed[1].base_action = "MANUAL_REVIEW"
        /\ ~Returned(call1)

\* every violation a step of the pipeline has created so far
CreatedViolations ==
    (IF validation_result = None THEN <<>> ELSE validation_result[1].violations)
    \o business_rule_violations

\* C26: no step of the pipeline creates a CRITICAL violation (validation
\* emits HIGH and MEDIUM only, the business rules HIGH, MEDIUM and LOW only),
\* so the pipeline never computes or returns action REJECT or risk CRITICAL.
C26_NoCriticalInPipeline ==
    /\ ~Has(CreatedViolations, "CRITICAL")
    /\ validation_result # None =>
          \A i \in DOMAIN validation_result[1].violations :
              validation_result[1].violations[i].severity \in {"HIGH", "MEDIUM"}
    /\ \A i \in DOMAIN business_rule_violations :
          business_rule_violations[i].severity \in {"HIGH", "MEDIUM", "LOW"}
    /\ Called1 =>
          /\ call1.computed[1].base_action # "REJECT"
          /\ call1.computed[1].risk_level # "CRITICAL"
          /\ Returned(call1) =>
                /\ call1.recommendation[1].action # "REJECT"
                /\ call1.recommendation[1].risk_level # "CRITICAL"

\* the pipeline ran to the recommendation with violations of every other
\* severity created on the way
C26_Witness ==
    /\ pc = "recommended"
    /\ matching_po.po # None
    /\ Has(validation_result[1].violations, "HIGH")
    /\ Has(business_rule_violations, "HIGH")
    /\ Has(business_rule_violations, "MEDIUM")
    /\ Has(business_rule_violations, "LOW")

\* C27: a returned recommendation with action APPROVE has auto_approvable
\* true, approval_threshold_exceeded false, no flagged issue and a risk level
\* of LOW or MEDIUM (and a computed base action APPROVE always comes with a
\* computed risk level of LOW or MEDIUM).
C27_ApproveImpliesFlags ==
    Called1 =>
        /\ call1.computed[1].base_action = "APPROVE" =>
              call1.computed[1].risk_level \in {"LOW", "MEDIUM"}
        /\ ReturnsAction(call1, "APPROVE") =>
              /\ call1.recommendation[1].auto_approvable
              /\ ~call1.recommendation[1].approval_threshold_exceeded
              /\ call1.recommendation[1].flagged_issues = <<>>
              /\ call1.recommendation[1].risk_level \in {"LOW", "MEDIUM"}

\* APPROVE is returned for a total equal to the auto-approve threshold
C27_Witness ==
    /\ ReturnsAction(call1, "APPROVE")
    /\ call1.recommendation[1].auto_approvable
    /\ ~call1.recommendation[1].approval_threshold_exceeded
    /\ invoice.total_amount = settings.auto_approve_threshold

\* the converse fails: a returned recommendation is auto-approvable and its
\* action is not APPROVE
C27_ConverseFails ==
    /\ Returned(call1)
    /\ call1.recommendation[1].auto_approvable
    /\ call1.recommendation[1].action \in {"HOLD", "MANUAL_REVIEW"}

ThresholdsOrdered ==
    settings.auto_approve_threshold <= settings.require_manual_review_threshold

\* C28: under every configuration with auto_approve_threshold <=
\* require_manual_review_threshold, no returned recommendation has
\* auto_approvable and requires_manual_review both true, and none has action
\* APPROVE with requires_manual_review true.
C28_NoConflictWhenOrdered ==
    (ThresholdsOrdered /\ Returned(call1)) =>
        /\ ~(/\ call1.recommendation[1].auto_approvable
             /\ call1.recommendation[1].requires_manual_review)
        /\ ~(/\ call1.recommendation[1].action = "APPROVE"
             /\ call1.recommendation[1].requires_manual_review)

\* both thresholds are equal and APPROVE is returned for a total equal to them
C28_Witness ==
    /\ settings.auto_approve_threshold = settings.require_manual_review_threshold
    /\ invoice.total_amount = settings.auto_approve_threshold
    /\ ReturnsAction(call1, "APPROVE")
    /\ call1.recommendation[1].auto_approvable
    /\ ~call1.recommendation[1].requires_manual_review

\* the configuration accepts the thresholds the other way round, and then an
\* approved, auto-approvable recommendation requires manual review
C28_ReversedConflict ==
    /\ ~ThresholdsOrdered
    /\ ReturnsAction(call1, "APPROVE")
    /\ call1.recommendation[1].auto_approvable
    /\ call1.recommendation[1].requires_manual_review

\* the row is a PO the repository can hand out and its vendor name is more
\* than 0.8 similar to the invoice's
SimilarVendorRow(row) ==
    /\ RowConverts(row)
    /\ Words(invoice.vendor_name) # {}
    /\ 5 * Cardinality(Words(invoice.vendor_name) \cap Words(row.vendor_name))
         > 4 * Cardinality(Words(invoice.vendor_name) \cup Words(row.vendor_name))

\* C29: if no lookup raises and the repository holds a PO whose vendor name
\* has Jaccard similarity above 0.8 with the invoice's, find_matching_po
\* returns some PO, whatever the invoice's amount, line items and reference.
C29_SimilarVendorAlwaysMatched ==
    (/\ pc = "matched"
     /\ RaisedLookups = {}
     /\ \E i \in DOMAIN po_table : SimilarVendorRow(po_table[i]))
    => matching_po.po # None

\* what holds of it: the same, when every row of the table can be turned into
\* a PurchaseOrder
C29_MatchedWhenAllRowsConvert ==
    (/\ pc = "matched"
     /\ RaisedLookups = {}
     /\ AllConvert(po_table)
     /\ \E i \in DOMAIN po_table : SimilarVendorRow(po_table[i]))
    => matching_po.po # None

\* every PO the three lookups of the repository's POService answer with
LookupAnswers ==
    {get_all_pos[i] : i \in DOMAIN get_all_pos}
    \cup {get_pos_by_vendor(invoice.vendor_name)[i] :
             i \in DOMAIN get_pos_by_vendor(invoice.vendor_name)}
    \cup {get_po_by_number(PONumber(i))[1] :
             i \in {j \in DOMAIN po_table : get_po_by_number(PONumber(j)) # None}}

\* C30: every PO the POService lookups return has no line items; so strategy
\* 3 never selects a PO, validation against a PO found by find_matching_po
\* reports matched_line_items = 0 and one HIGH violation per invoice line
\* item, and an invoice with a line item is never valid and never approved.
C30_NoPOLineItems ==
    /\ \A po \in LookupAnswers : po.line_items = <<>>
    /\ matching_po.strategy # 3
    /\ matching_po.po # None => matching_po.po[1].line_items = <<>>
    /\ (validation_result # None /\ matching_po.po # None) =>
          /\ validation_result[1].matched_line_items = 0
          /\ Len(OfTypeAndSeverity(validation_result[1].violations,
                                   "QUANTITY_MISMATCH", "HIGH"))
               = Len(invoice.line_items)
    /\ (validation_result # None /\ invoice.line_items # <<>>) =>
          ~validation_result[1].is_valid
    /\ (Called1 /\ invoice.line_items # <<>>) =>
          /\ call1.computed[1].base_action # "APPROVE"
          /\ ~ReturnsAction(call1, "APPROVE")

\* an invoice of two line items went through the pipeline against a PO of
\* its vendor found in the repository
C30_Witness ==
    /\ pc = "recommended"
    /\ matching_po.po # None
    /\ lower(matching_po.po[1].vendor_name) = lower(invoice.vendor_name)
    /\ Len(invoice.line_items) = 2
    /\ validation_result[1].matched_line_items = 0
    /\ Len(validation_result[1].violations) = 2
    /\ ~validation_result[1].is_valid

====
